---- MODULE Spec2Model ----
(***************************************************************************)
(* A model of the multi-splitter layout tree of KDDockWidgets              *)
(* (src/private/multisplitter/Item.cpp, Item_p.h).                         *)
(*                                                                         *)
(* The tree is an arena: a function from node ids to node records.  Every  *)
(* method of Item / ItemContainer that changes the tree is an operator     *)
(* that takes the arena and returns the new arena; virtual methods         *)
(* dispatch on isContainer.  Signals are modelled by calling the slots     *)
(* that connectParent() connects (minSizeChanged ->                        *)
(* onChildMinSizeChanged); signals with no slot inside the tree            *)
(* (geometryChanged, visibleChanged, itemsChanged, ...) have no effect on  *)
(* the tree and are left out.  Q_ASSERT is a no-op, as in a release build. *)
(***************************************************************************)
EXTENDS Integers, Sequences, FiniteSets, TLC

(***************************************************************************)
(* Program constants                                                       *)
(***************************************************************************)
separatorThickness == 5
KDDOCKWIDGETS_MIN_WIDTH == 80
KDDOCKWIDGETS_MIN_HEIGHT == 90
KDDOCKWIDGETS_MAX_WIDTH == 16777215
KDDOCKWIDGETS_MAX_HEIGHT == 16777215

Horizontal == "Horizontal"
Vertical == "Vertical"

Side1 == "Side1"
Side2 == "Side2"

Location_None == "Location_None"
Location_OnLeft == "Location_OnLeft"
Location_OnTop == "Location_OnTop"
Location_OnRight == "Location_OnRight"
Location_OnBottom == "Location_OnBottom"

\* nullptr for Item* / ItemContainer*
NoItem == -1
\* nullptr for GuestInterface*
NoGuest == 0
\* the id of the root container
Root == 0

(***************************************************************************)
(* The methods of the layout call one another, directly and through the    *)
(* signals, in cycles.  Every call of a method is written                  *)
(* call("method", <<arguments>>): `call` is the one recursive operator     *)
(* of the methods, defined after them.                                     *)
(***************************************************************************)
RECURSIVE call(_, _)

(***************************************************************************)
(* QSize / QRect / QPoint                                                  *)
(***************************************************************************)
Max(a, b) == IF a >= b THEN a ELSE b
Min(a, b) == IF a <= b THEN a ELSE b
Abs(a) == IF a < 0 THEN -a ELSE a
\* a / b of two ints in C++, b > 0: the quotient truncated towards zero
quot(a, b) == IF a >= 0 THEN a \div b ELSE -((-a) \div b)
\* qBound(min, val, max) == qMax(min, qMin(max, val))
qBound(lo, v, hi) == Max(lo, Min(hi, v))

QSize(w, h) == [w |-> w, h |-> h]
QRect(x, y, w, h) == [x |-> x, y |-> y, w |-> w, h |-> h]
QPoint(x, y) == [x |-> x, y |-> y]
NullRect == QRect(0, 0, 0, 0)

hardcodedMinimumSize == QSize(KDDOCKWIDGETS_MIN_WIDTH, KDDOCKWIDGETS_MIN_HEIGHT)
hardcodedMaximumSize == QSize(KDDOCKWIDGETS_MAX_WIDTH, KDDOCKWIDGETS_MAX_HEIGHT)

rectSize(r) == QSize(r.w, r.h)
rectTopLeft(r) == QPoint(r.x, r.y)
rectRight(r) == r.x + r.w - 1
rectBottom(r) == r.y + r.h - 1
rectIsEmpty(r) == r.w <= 0 \/ r.h <= 0
rectIsNull(r) == r.w = 0 /\ r.h = 0
rectSetSize(r, sz) == [r EXCEPT !.w = sz.w, !.h = sz.h]
rectMoveTopLeft(r, p) == [r EXCEPT !.x = p.x, !.y = p.y]
\* QRect::setLeft / setTop move one edge and keep the opposite one
rectSetLeft(r, x) == [r EXCEPT !.x = x, !.w = rectRight(r) - x + 1]
rectSetTop(r, y) == [r EXCEPT !.y = y, !.h = rectBottom(r) - y + 1]
rectSetRight(r, x2) == [r EXCEPT !.w = x2 - r.x + 1]
rectSetBottom(r, y2) == [r EXCEPT !.h = y2 - r.y + 1]
\* QRect::contains(const QRect &, proper = false), for valid rectangles
rectContains(outer, inner) ==
    /\ ~rectIsNull(outer) /\ ~rectIsNull(inner)
    /\ inner.x >= outer.x /\ rectRight(inner) <= rectRight(outer)
    /\ inner.y >= outer.y /\ rectBottom(inner) <= rectBottom(outer)
sizeIsNull(sz) == sz.w = 0 /\ sz.h = 0
sizeExpandedTo(a, b) == QSize(Max(a.w, b.w), Max(a.h, b.h))

oppositeOrientation(o) == IF o = Vertical THEN Horizontal ELSE Vertical
\* Layouting::pos(QPoint, Qt::Orientation)
pos(p, o) == IF o = Vertical THEN p.y ELSE p.x
\* Layouting::length(QSize, Qt::Orientation)
length(sz, o) == IF o = Vertical THEN sz.h ELSE sz.w
locationIsVertical(loc) == loc = Location_OnTop \/ loc = Location_OnBottom
\* no location is on side 1
locationIsSide1_Never(loc) == FALSE
locationIsSide1(loc) == loc = Location_OnLeft \/ loc = Location_OnTop
\* an orientation that does not follow the location
orientationForLocation_AlwaysVertical(loc) == Vertical
orientationForLocation(loc) ==
    IF loc = Location_OnLeft \/ loc = Location_OnRight THEN Horizontal ELSE Vertical
sideForLocation(loc) ==
    IF loc = Location_OnRight \/ loc = Location_OnBottom THEN Side2 ELSE Side1
adjustedRect(r, o, p1, p2) ==
    IF o = Vertical THEN QRect(r.x, r.y + p1, r.w, r.h - p1 + p2)
    ELSE QRect(r.x + p1, r.y, r.w - p1 + p2, r.h)

(***************************************************************************)
(* SizingInfo (Item_p.h:199-278): a record                                 *)
(*   [geometry, minSize, maxSize, percentageWithinParent, isBeingInserted] *)
(* percentageWithinParent is the double (1.0 * length) / usable; it is     *)
(* kept as the pair [n, d] of the two ints it was divided from, 0.0 being  *)
(* [n |-> 0, d |-> 1].                                                     *)
(***************************************************************************)
ZeroPercentage == [n |-> 0, d |-> 1]

SizingInfo ==
    [geometry |-> NullRect,
     minSize |-> hardcodedMinimumSize,
     maxSize |-> hardcodedMaximumSize,
     percentageWithinParent |-> ZeroPercentage,
     isBeingInserted |-> FALSE]

si_length(s, o) == length(rectSize(s.geometry), o)
si_minLength(s, o) == length(s.minSize, o)
si_availableLength(s, o) == Max(0, si_length(s, o) - si_minLength(s, o))
si_missingLength(s, o) == Max(0, si_minLength(s, o) - si_length(s, o))
si_position(s, o) == pos(rectTopLeft(s.geometry), o)
si_edge(s, o) == IF o = Vertical THEN rectBottom(s.geometry) ELSE rectRight(s.geometry)
si_setLength(s, l, o) ==
    IF o = Vertical THEN [s EXCEPT !.geometry.h = l] ELSE [s EXCEPT !.geometry.w = l]
si_incrementLength(s, byAmount, o) == si_setLength(s, si_length(s, o) + byAmount, o)
si_setOppositeLength(s, l, o) == si_setLength(s, l, oppositeOrientation(o))
si_setPos(s, p, o) ==
    IF o = Vertical THEN [s EXCEPT !.geometry.y = p] ELSE [s EXCEPT !.geometry.x = p]
si_setSize(s, sz) == [s EXCEPT !.geometry = rectSetSize(s.geometry, sz)]

(***************************************************************************)
(* Nodes.  One record type for Item and ItemContainer.                     *)
(***************************************************************************)
\* The QWidget a layout sits in, QWidget *m_hostWidget: none, the widget of the
\* host, or another widget of the application
NoHost == "nullptr"
HostWidget == "hostWidget"
OtherWidget == "otherWidget"

\* no layout
NoTree == << >>

\* Item::Item(QWidget *hostWidget, ItemContainer *parent) for an item of the
\* layout T: the constructor ends in connectParent(parent), which gives the item
\* the host of its parent
NewItem(T, host, parent) ==
    [isContainer |-> FALSE,
     m_parent |-> parent,
     m_sizingInfo |-> SizingInfo,
     m_isVisible |-> FALSE,
     m_refCount |-> 0,
     m_guest |-> NoGuest,
     m_hostWidget |-> IF parent # NoItem THEN T[parent].m_hostWidget ELSE host,
     m_children |-> << >>,
     m_orientation |-> Vertical,
     m_separators |-> << >>,
     m_blockUpdatePercentages |-> FALSE,
     m_isDeserializing |-> FALSE,
     m_convertingItemToContainer |-> FALSE,
     m_checkSanityScheduled |-> FALSE]

\* ItemContainer::ItemContainer(QWidget *hostWidget, ItemContainer *parent) and
\* ItemContainer::ItemContainer(QWidget *hostWidget)
NewItemContainer(T, host, parent) == [NewItem(T, host, parent) EXCEPT !.isContainer = TRUE]

\* the function f with every value computed: TLC evaluates a function constructor
\* anew at each application until the function is compared
Explicit(f) == IF f = << >> THEN f ELSE f

\* the last of `steps`, every one computed before the next.  TLC computes a LET
\* definition where it is first needed, nested inside whatever it is evaluating
\* then; listing the intermediate results in program order keeps the nesting
\* of the evaluation that of the source's call stack.
InOrder(steps) == steps[Len(steps)]

SeqIndexOf(s, e) ==
    IF \E i \in 1..Len(s) : s[i] = e
    THEN (CHOOSE i \in 1..Len(s) : s[i] = e /\ \A j \in 1..(i - 1) : s[j] # e) - 1
    ELSE -1
SeqContains(s, e) == \E i \in 1..Len(s) : s[i] = e
\* QVector::removeOne
SeqRemoveOne(s, e) ==
    LET i == SeqIndexOf(s, e) + 1
    IN IF i = 0 THEN s ELSE SubSeq(s, 1, i - 1) \o SubSeq(s, i + 1, Len(s))
\* QVector::insert(index, e), index 0-based
SeqInsert(s, index, e) == SubSeq(s, 1, index) \o <<e>> \o SubSeq(s, index + 1, Len(s))
SeqFilter(s, Test(_)) == SelectSeq(s, Test)
RECURSIVE SeqSum(_)
SeqSum(s) == IF s = << >> THEN 0 ELSE Head(s) + SeqSum(Tail(s))

isRoot(T, n) == T[n].m_parent = NoItem
parentContainer(T, n) == T[n].m_parent
isBeingInserted(T, n) == T[n].m_sizingInfo.isBeingInserted
size(T, n) == rectSize(T[n].m_sizingInfo.geometry)
width(T, n) == T[n].m_sizingInfo.geometry.w
height(T, n) == T[n].m_sizingInfo.geometry.h
itemPos(T, n) == rectTopLeft(T[n].m_sizingInfo.geometry)
\* Item::rect / ItemContainer::rect
rect(T, n) == QRect(0, 0, width(T, n), height(T, n))
\* Item::geometry
geometry(T, n) == IF isBeingInserted(T, n) THEN NullRect ELSE T[n].m_sizingInfo.geometry
\* Item::length(Qt::Orientation)
itemLength(T, n, o) == length(size(T, n), o)
isVertical(T, c) == T[c].m_orientation = Vertical
isHorizontal(T, c) == T[c].m_orientation = Horizontal
\* ItemContainer::length
containerLength(T, c) == IF isVertical(T, c) THEN height(T, c) ELSE width(T, c)
oppositeLength(T, c) == IF isVertical(T, c) THEN width(T, c) ELSE height(T, c)
numChildren(T, c) == Len(T[c].m_children)
isEmpty(T, c) == T[c].m_children = << >>
contains(T, c, item) == SeqContains(T[c].m_children, item)

\* Item::root: the container the item's parents end in; none for an item that
\* has no parent and is not a container
RECURSIVE root(_, _)
root(T, n) ==
    IF T[n].m_parent # NoItem THEN root(T, T[n].m_parent)
    ELSE IF T[n].isContainer THEN n
    ELSE NoItem

\* Item::isVisible / ItemContainer::isVisible (= hasVisibleChildren)
RECURSIVE isVisible(_, _, _)
isVisible(T, n, excludeBeingInserted) ==
    IF T[n].isContainer
    THEN \E i \in 1..Len(T[n].m_children) :
            isVisible(T, T[n].m_children[i], excludeBeingInserted)
    ELSE T[n].m_isVisible /\ ~(excludeBeingInserted /\ isBeingInserted(T, n))

hasVisibleChildren(T, c, excludeBeingInserted) ==
    \E i \in 1..Len(T[c].m_children) : isVisible(T, T[c].m_children[i], excludeBeingInserted)

visibleChildren(T, c, includeBeingInserted) ==
    LET Keep(item) ==
            IF includeBeingInserted
            THEN isVisible(T, item, FALSE) \/ isBeingInserted(T, item)
            ELSE isVisible(T, item, FALSE) /\ ~isBeingInserted(T, item)
    IN SelectSeq(T[c].m_children, Keep)

numVisibleChildren(T, c) ==
    Cardinality({i \in 1..Len(T[c].m_children) : isVisible(T, T[c].m_children[i], FALSE)})

\* Item::visibleCount_recursive / ItemContainer::visibleCount_recursive
RECURSIVE visibleCount_recursive(_, _)
visibleCount_recursive(T, n) ==
    IF T[n].isContainer
    THEN SeqSum(Explicit([i \in 1..Len(T[n].m_children) |->
                    visibleCount_recursive(T, T[n].m_children[i])]))
    ELSE IF isVisible(T, n, FALSE) THEN 1 ELSE 0

\* Item::minSize / ItemContainer::minSize
minSize(T, n) ==
    IF ~T[n].isContainer THEN T[n].m_sizingInfo.minSize
    ELSE
      LET counted == SelectSeq(T[n].m_children,
                         LAMBDA item : isVisible(T, item, FALSE) \/ isBeingInserted(T, item))
          mins == Explicit([i \in 1..Len(counted) |-> call("minSize", <<T, counted[i]>>)])
          numVisible == Len(counted)
          separatorWaste == Max(0, (numVisible - 1) * separatorThickness)
          RECURSIVE maxOf(_, _, _)
          maxOf(i, o, acc) ==
              IF i > Len(mins) THEN acc ELSE maxOf(i + 1, o, Max(acc, length(mins[i], o)))
          sumOf(o) == SeqSum(Explicit([i \in 1..Len(mins) |-> length(mins[i], o)]))
      IN IF T[n].m_children = << >> THEN QSize(0, 0)
         ELSE IF isVertical(T, n)
              THEN QSize(maxOf(1, Horizontal, 0), sumOf(Vertical) + separatorWaste)
              ELSE QSize(sumOf(Horizontal) + separatorWaste, maxOf(1, Vertical, 0))

\* Item::minLength(Qt::Orientation)
minLength(T, n, o) == length(call("minSize", <<T, n>>), o)

\* Item::missingSize
missingSize(T, n) ==
    LET m == call("minSize", <<T, n>>)
        s == size(T, n)
    IN QSize(Max(m.w - s.w, 0), Max(m.h - s.h, 0))

\* ItemContainer::usableLength
usableLength(T, c) ==
    LET children == call("visibleChildren", <<T, c, FALSE>>)
        numVisible == Len(children)
    IN IF numVisible <= 1 THEN length(size(T, c), T[c].m_orientation)
       ELSE containerLength(T, c) - separatorThickness * (numVisible - 1)

\* ItemContainer::availableSize / availableLength
availableSize(T, c) ==
    QSize(width(T, c) - call("minSize", <<T, c>>).w, height(T, c) - call("minSize", <<T, c>>).h)
availableLength(T, c) ==
    IF isVertical(T, c) THEN call("availableSize", <<T, c>>).h ELSE call("availableSize", <<T, c>>).w

\* Item::mapToRoot(QPoint)
RECURSIVE mapToRootPoint(_, _, _)
mapToRootPoint(T, n, p) ==
    IF isRoot(T, n) THEN p
    ELSE LET q == mapToRootPoint(T, parentContainer(T, n), itemPos(T, n))
         IN QPoint(p.x + q.x, p.y + q.y)
\* Item::mapToRoot(int, Qt::Orientation)
mapToRoot(T, n, p, o) ==
    IF o = Vertical THEN mapToRootPoint(T, n, QPoint(0, p)).y
    ELSE mapToRootPoint(T, n, QPoint(p, 0)).x
\* a rectangle taken for one of the root's as it is
mapToRootRect_Unmapped(T, n, r) == r
\* Item::mapToRoot(QRect)
mapToRootRect(T, n, r) == rectMoveTopLeft(r, mapToRootPoint(T, n, rectTopLeft(r)))

(***************************************************************************)
(* int(childPercentage * totalNewLength) of resizeChildren, where          *)
(* childPercentage is the double (1.0 * n) / d stored by                   *)
(* updateChildPercentages.  The two IEEE-754 roundings (of the division    *)
(* and of the product) are followed exactly: the truncated product is      *)
(* floor(n*t/d) unless n*t/d is an integer k, the quotient n/d was rounded *)
(* down, and the product then rounds to the double just below k.           *)
(***************************************************************************)
pow2(e) == IF e <= 0 THEN 1 ELSE 2 ^ e

\* floor(log2(k)) for k >= 1
RECURSIVE floorLog2(_)
floorLog2(k) == IF k < 2 THEN 0 ELSE 1 + floorLog2(k \div 2)

\* the binary exponent e of n/d: 2^e <= n/d < 2^(e+1), for n, d >= 1
RECURSIVE ratioExponentDown(_, _, _)
ratioExponentDown(n, d, j) == IF n * pow2(j) >= d THEN -j ELSE ratioExponentDown(n, d, j + 1)
ratioExponent(n, d) == IF n >= d THEN floorLog2(n \div d) ELSE ratioExponentDown(n, d, 1)

\* <<parity of floor(n * 2^s / d), (n * 2^s) mod d>> by long division, eight bits
\* of the quotient at a time while r * 2^8 < d * 2^8 < 2^30
RECURSIVE longDivision(_, _, _, _)
longDivision(qbit, r, d, s) ==
    LET k == IF s >= 8 /\ d < 2 ^ 22 THEN 8 ELSE 1
        shifted == r * 2 ^ k
    IN IF s = 0 THEN <<qbit, r>>
       ELSE longDivision((shifted \div d) % 2, shifted % d, d, s - k)

\* TRUE iff the double nearest to n/d is below n/d (round to nearest, ties to even)
divisionRoundsDown(n, d) ==
    LET s == 52 - ratioExponent(n, d)
        qr == longDivision((n \div d) % 2, n % d, d, s)
        r == qr[2]
    IN r > 0 /\ (2 * r < d \/ (2 * r = d /\ qr[1] = 0))

\* (n * 2^s) mod d for the s of divisionRoundsDown
divisionRemainder(n, d) ==
    longDivision((n \div d) % 2, n % d, d, 52 - ratioExponent(n, d))[2]

\* int(((1.0 * n) / d) * t) for ints n >= 0, d >= 1, t >= 0
truncatedProduct(n, d, t) ==
    LET k == (n * t) \div d
    IN IF n = 0 \/ t = 0 \/ (n * t) % d # 0 THEN k
       ELSE IF ~call("divisionRoundsDown", <<n, d>>) THEN k
       ELSE LET r == call("divisionRemainder", <<n, d>>)
                j == floorLog2(k) - ratioExponent(n, d)
                isPow2 == pow2(floorLog2(k)) = k
                lhs == IF isPow2 THEN 4 * r * t ELSE 2 * r * t
            IN IF pow2(j) >= 2 * t THEN k
               ELSE IF lhs > d * pow2(j) THEN k - 1 ELSE k

(***************************************************************************)
(* Algorithms on SizingInfo::List (a working copy of the children's sizes) *)
(***************************************************************************)

\* ItemContainer::LengthOnSide
LengthOnSide_available(l) == Max(0, l.length - l.minLength)
LengthOnSide_missing(l) == Max(0, l.minLength - l.length)

\* ItemContainer::lengthOnSide; fromIndex is 0-based as in the source
lengthOnSide(sizes, fromIndex, side, o) ==
    LET count == Len(sizes)
        start == IF side = Side1 THEN 0 ELSE fromIndex
        end == IF side = Side1 THEN fromIndex ELSE count - 1
    IN IF fromIndex < 0 \/ fromIndex >= count THEN [length |-> 0, minLength |-> 0]
       ELSE [length |-> SeqSum(Explicit([i \in 1..(end - start + 1) |-> si_length(sizes[start + i], o)])),
             minLength |-> SeqSum(Explicit([i \in 1..(end - start + 1) |-> si_minLength(sizes[start + i], o)]))]

AllNeighbours == "AllNeighbours"
ImmediateNeighboursFirst == "ImmediateNeighboursFirst"
BothSidesEqually == "BothSidesEqually"
Side1Only == "Side1Only"
Side2Only == "Side2Only"
Percentage == "Percentage"
Side1SeparatorMove == "Side1SeparatorMove"
Side2SeparatorMove == "Side2SeparatorMove"

\* one pass of the for loop of calculateSqueezes (AllNeighbours) over the donors
squeezePass(i, availabilities, squeezes, missing, toTake) ==
    IF i > Len(availabilities) \/ missing = 0
    THEN [availabilities |-> availabilities, squeezes |-> squeezes, missing |-> missing]
    ELSE LET available == availabilities[i]
             took == Min(missing, Min(toTake, available))
         IN IF available = 0
            THEN call("squeezePass", <<i + 1, availabilities, squeezes, missing, toTake>>)
            ELSE call("squeezePass", <<i + 1,
                             [availabilities EXCEPT ![i] = @ - took],
                             [squeezes EXCEPT ![i] = @ + took],
                             missing - took, toTake>>)

\* a single pass over the donors instead of the while loop
squeezeAll_OnePass(availabilities, squeezes, missing) ==
    LET numDonors == Cardinality({i \in 1..Len(availabilities) : availabilities[i] > 0})
        toTake == IF missing \div numDonors = 0 THEN missing ELSE missing \div numDonors
    IN IF missing <= 0 THEN squeezes
       ELSE IF numDonors = 0 THEN << >>
       ELSE call("squeezePass", <<1, availabilities, squeezes, missing, toTake>>).squeezes

\* the while loop of calculateSqueezes (AllNeighbours); << >> is the return {} that
\* follows Q_ASSERT(false) when no donor is left
squeezeAll(availabilities, squeezes, missing) ==
    IF missing <= 0 THEN squeezes
    ELSE LET numDonors == Cardinality({i \in 1..Len(availabilities) : availabilities[i] > 0})
             toTake == IF missing \div numDonors = 0 THEN missing ELSE missing \div numDonors
             pass == call("squeezePass", <<1, availabilities, squeezes, missing, toTake>>)
         IN IF numDonors = 0 THEN << >>
            ELSE call("squeezeAll", <<pass.availabilities, pass.squeezes, pass.missing>>)

\* the for loop of calculateSqueezes (ImmediateNeighboursFirst); i counts from 0
squeezeImmediate(i, availabilities, squeezes, missing, reversed) ==
    LET count == Len(availabilities)
        index == IF reversed THEN count - 1 - i ELSE i
        available == availabilities[index + 1]
        took == Min(missing, available)
        missing2 == IF available > 0 THEN missing - took ELSE missing
        squeezes2 == IF available > 0 THEN [squeezes EXCEPT ![index + 1] = @ + took]
                     ELSE squeezes
    IN IF i >= count THEN squeezes
       ELSE IF missing2 = 0 THEN squeezes2
       ELSE call("squeezeImmediate", <<i + 1, availabilities, squeezes2, missing2, reversed>>)

\* ItemContainer::calculateSqueezes over the sub-list `donors` (= [begin, end))
calculateSqueezes(donors, needed, strategy, reversed, o) ==
    LET availabilities == Explicit([i \in 1..Len(donors) |-> si_availableLength(donors[i], o)])
        zeros == Explicit([i \in 1..Len(donors) |-> 0])
    IN IF strategy = AllNeighbours THEN call("squeezeAll", <<availabilities, zeros, needed>>)
       ELSE call("squeezeImmediate", <<0, availabilities, zeros, needed, reversed>>)

\* neighbours squeezed from the start of the list on side 1 too, whatever the
\* strategy
shrinkNeighbours_FromTheStart(sizes, index, side1Amount, side2Amount, strategy, o) ==
    LET squeezes1 == call("calculateSqueezes", <<SubSeq(sizes, 1, index), side1Amount, strategy,
                                       FALSE, o>>)
        sizes1 == IF side1Amount > 0
                  THEN Explicit([i \in 1..Len(sizes) |->
                          IF i <= Len(squeezes1)
                          THEN si_setSize(sizes[i],
                                   rectSize(adjustedRect(sizes[i].geometry, o, 0, -squeezes1[i])))
                          ELSE sizes[i]])
                  ELSE sizes
        squeezes2 == call("calculateSqueezes", <<SubSeq(sizes1, index + 2, Len(sizes1)), side2Amount,
                                       strategy, FALSE, o>>)
    IN IF side2Amount > 0
       THEN Explicit([i \in 1..Len(sizes1) |->
               IF i > index + 1 /\ i - (index + 1) <= Len(squeezes2)
               THEN si_setSize(sizes1[i],
                        rectSize(adjustedRect(sizes1[i].geometry, o, squeezes2[i - (index + 1)], 0)))
               ELSE sizes1[i]])
       ELSE sizes1

\* ItemContainer::shrinkNeighbours; index is 0-based as in the source
shrinkNeighbours(sizes, index, side1Amount, side2Amount, strategy, o) ==
    LET squeezes1 == call("calculateSqueezes", <<SubSeq(sizes, 1, index), side1Amount, strategy,
                                       strategy = ImmediateNeighboursFirst, o>>)
        sizes1 == IF side1Amount > 0
                  THEN Explicit([i \in 1..Len(sizes) |->
                          IF i <= Len(squeezes1)
                          THEN si_setSize(sizes[i],
                                   rectSize(adjustedRect(sizes[i].geometry, o, 0, -squeezes1[i])))
                          ELSE sizes[i]])
                  ELSE sizes
        squeezes2 == call("calculateSqueezes", <<SubSeq(sizes1, index + 2, Len(sizes1)), side2Amount,
                                       strategy, FALSE, o>>)
    IN IF side2Amount > 0
       THEN Explicit([i \in 1..Len(sizes1) |->
               IF i > index + 1 /\ i - (index + 1) <= Len(squeezes2)
               THEN si_setSize(sizes1[i],
                        rectSize(adjustedRect(sizes1[i].geometry, o, squeezes2[i - (index + 1)], 0)))
               ELSE sizes1[i]])
       ELSE sizes1

\* the while (toSteal > 0) loop of growItem (BothSidesEqually):
\* returns <<side1Growth, side2Growth>>
growthPerSide(toSteal, available1, available2, side1Growth, side2Growth) ==
    LET toTake == Max(1, toSteal \div 2)
        took1 == Min(toTake, available1)
        took2 == Min(toTake, available2)
    IN IF toSteal <= 0 THEN <<side1Growth, side2Growth>>
       ELSE IF available1 = 0 THEN <<side1Growth, side2Growth + toSteal>>
       ELSE IF available2 = 0 THEN <<side1Growth + toSteal, side2Growth>>
       ELSE IF toSteal - took1 = 0 THEN <<side1Growth + took1, side2Growth>>
       ELSE call("growthPerSide", <<toSteal - took1 - took2, available1 - took1, available2 - took2,
                          side1Growth + took1, side2Growth + took2>>)

\* ItemContainer::growItem(int index, SizingInfo::List &sizes, ...); index is 0-based.
\* o and oppLength are the container's m_orientation and oppositeLength().
growItemList(sizes, index, missing, growthStrategy, neighbourSqueezeStrategy, accountForNewSeparator, o, oppLength) ==
    LET toSteal == missing + (IF accountForNewSeparator THEN separatorThickness ELSE 0)
        grown == si_setOppositeLength(
                     si_setLength(sizes[index + 1], si_length(sizes[index + 1], o) + missing, o),
                     oppLength, o)
        sizes1 == [sizes EXCEPT ![index + 1] = grown]
        count == Len(sizes)
        side1Length == call("lengthOnSide", <<sizes1, index - 1, Side1, o>>)
        side2Length == call("lengthOnSide", <<sizes1, index + 1, Side2, o>>)
        growth == IF growthStrategy = BothSidesEqually
                  THEN call("growthPerSide", <<toSteal, LengthOnSide_available(side1Length),
                                     LengthOnSide_available(side2Length), 0, 0>>)
                  ELSE IF growthStrategy = Side1Only THEN <<missing, 0>>
                  ELSE <<0, missing>>
    IN IF toSteal = 0 THEN sizes
       ELSE IF growthStrategy = BothSidesEqually /\ count = 1
            THEN [sizes1 EXCEPT ![index + 1] = si_incrementLength(grown, missing, o)]
       ELSE call("shrinkNeighbours", <<sizes1, index, growth[1], growth[2], neighbourSqueezeStrategy, o>>)

\* ItemContainer::positionItems(SizingInfo::List &sizes); containerSize is size()
positionItemsFrom(sizes, i, nextPos, o, containerSize) ==
    IF i > Len(sizes) THEN sizes
    ELSE IF sizes[i].isBeingInserted
         THEN call("positionItemsFrom", <<sizes, i + 1, nextPos + separatorThickness, o, containerSize>>)
         ELSE LET opp == oppositeOrientation(o)
                  s1 == si_setPos(si_setLength(sizes[i], length(containerSize, opp), opp), 0, opp)
                  s2 == si_setPos(s1, nextPos, o)
              IN call("positionItemsFrom", <<[sizes EXCEPT ![i] = s2], i + 1,
                                   nextPos + si_length(s2, o) + separatorThickness,
                                   o, containerSize>>)
positionItemsList(sizes, o, containerSize) == call("positionItemsFrom", <<sizes, 1, 0, o, containerSize>>)


(***************************************************************************)
(* Item / ItemContainer methods that change the tree                       *)
(***************************************************************************)

\* Item::setGeometry.  The signals it emits have no slot in the tree; the guest's
\* own geometry belongs to the host toolkit.
setGeometry(T, n, r) == [T EXCEPT ![n].m_sizingInfo.geometry = r]
\* Item::setSize
setSize(T, n, sz) == setGeometry(T, n, rectSetSize(T[n].m_sizingInfo.geometry, sz))
\* Item::setPos(QPoint)
setPos(T, n, p) == setGeometry(T, n, rectMoveTopLeft(T[n].m_sizingInfo.geometry, p))
\* Item::setLength
setLength(T, n, len, o) ==
    IF o = Vertical
    THEN setSize(T, n, QSize(Max(width(T, n), hardcodedMinimumSize.w), len))
    ELSE setSize(T, n, QSize(len, Max(height(T, n), hardcodedMinimumSize.h)))

\* Item::setBeingInserted
setBeingInserted(T, n, is) ==
    LET T1 == [T EXCEPT ![n].m_sizingInfo.isBeingInserted = is]
        parent == parentContainer(T, n)
    IN IF parent = NoItem THEN T1
       ELSE IF is
            THEN IF ~hasVisibleChildren(T1, parent, FALSE)
                 THEN call("setBeingInserted", <<T1, parent, TRUE>>)
                 ELSE T1
            ELSE call("setBeingInserted", <<T1, parent, FALSE>>)

\* Item::setIsVisible / ItemContainer::setIsVisible (a no-op for containers)
setIsVisible(T, n, is) ==
    IF T[n].isContainer THEN T ELSE [T EXCEPT ![n].m_isVisible = is]

\* the children ItemContainer::sizes() reads: visibleChildren(ignoreBeingInserted)
sizesChildren(T, c) == call("visibleChildren", <<T, c, FALSE>>)
\* the side effect of ItemContainer::sizes(): every container child's
\* m_sizingInfo.minSize is refreshed from its minSize()
sizesCache(T, c) ==
    LET children == sizesChildren(T, c)
        cached == {children[i] : i \in 1..Len(children)}
    IN Explicit([n \in DOMAIN T |->
          IF n \in cached /\ T[n].isContainer
          THEN [T[n] EXCEPT !.m_sizingInfo.minSize = call("minSize", <<T, n>>)]
          ELSE T[n]])
\* the value of ItemContainer::sizes()
sizes(T, c) ==
    LET children == sizesChildren(T, c)
    IN Explicit([i \in 1..Len(children) |->
          IF T[children[i]].isContainer
          THEN [T[children[i]].m_sizingInfo EXCEPT !.minSize = call("minSize", <<T, children[i]>>)]
          ELSE T[children[i]].m_sizingInfo])

\* ItemContainer::childPercentages
childPercentages(T, c) ==
    LET children == SelectSeq(T[c].m_children,
                        LAMBDA item : isVisible(T, item, FALSE) /\ ~isBeingInserted(T, item))
    IN Explicit([i \in 1..Len(children) |-> T[children[i]].m_sizingInfo.percentageWithinParent])

\* ItemContainer::updateChildPercentages
updateChildPercentages(T, c) ==
    LET usable == call("usableLength", <<T, c>>)
        kids == {T[c].m_children[i] : i \in 1..Len(T[c].m_children)}
    IN IF T[c].m_blockUpdatePercentages THEN T
       ELSE Explicit([n \in DOMAIN T |->
               IF n \notin kids THEN T[n]
               ELSE IF isVisible(T, n, FALSE) /\ ~isBeingInserted(T, n)
                    THEN [T[n] EXCEPT !.m_sizingInfo.percentageWithinParent =
                                          [n |-> itemLength(T, n, T[c].m_orientation),
                                           d |-> usable]]
                    ELSE [T[n] EXCEPT !.m_sizingInfo.percentageWithinParent = ZeroPercentage]])

\* ItemContainer::requiredSeparatorPositions
requiredSeparatorPositions(T, c) ==
    LET numSeparators == Max(0, numVisibleChildren(T, c) - 1)
        visible == SelectSeq(T[c].m_children, LAMBDA item : isVisible(T, item, FALSE))
    IN Explicit([i \in 1..numSeparators |->
          mapToRoot(T, c, si_edge(T[visible[i]].m_sizingInfo, T[c].m_orientation) + 1,
                    T[c].m_orientation)])

\* ItemContainer::updateSeparators.  A separator is the record Separator::setGeometry
\* leaves: its position along the container's orientation, its position along the
\* other axis and its length, all in root coordinates.
updateSeparators(T, c) ==
    LET positions == call("requiredSeparatorPositions", <<T, c>>)
        origin == mapToRootPoint(T, c, QPoint(0, 0))
        pos2 == IF isVertical(T, c) THEN origin.x ELSE origin.y
        separators == Explicit([i \in 1..Len(positions) |->
                          [position |-> positions[i], pos2 |-> pos2,
                           length |-> oppositeLength(T, c)]])
    IN IF T[c].m_hostWidget = NoHost THEN T
       ELSE call("updateChildPercentages", <<[T EXCEPT ![c].m_separators = separators], c>>)

\* the loop of updateSeparators_recursive over the container children in `items`
updateSeparatorsOf(T, items, i) ==
    IF i > Len(items) THEN T
    ELSE IF T[items[i]].isContainer
         THEN LET T1 == call("updateSeparators_recursive", <<T, items[i]>>)
              IN InOrder(<<T1, call("updateSeparatorsOf", <<T1, items, i + 1>>)>>)
         ELSE call("updateSeparatorsOf", <<T, items, i + 1>>)

\* ItemContainer::updateSeparators_recursive
updateSeparators_recursive(T, c) ==
    LET T1 == call("updateSeparators", <<T, c>>)
    IN InOrder(<<T1, call("updateSeparatorsOf", <<T1, call("visibleChildren", <<T1, c, FALSE>>), 1>>)>>)

\* the Percentage loop of resizeChildren from child i (1-based); the return after
\* Q_ASSERT(false) leaves the remaining entries as they are
resizeByPercentage(childSizes, percentages, i, remaining, totalNewLength, lengthChanged, o, containerSize) ==
    LET isLast == i = Len(childSizes)
        p == percentages[i]
        newItemLength == IF lengthChanged
                         THEN IF isLast THEN remaining
                              ELSE call("truncatedProduct", <<p.n, p.d, totalNewLength>>)
                         ELSE si_length(childSizes[i], o)
        newSize == IF o = Vertical THEN QSize(containerSize.w, newItemLength)
                   ELSE QSize(newItemLength, containerSize.h)
    IN IF i > Len(childSizes) THEN childSizes
       ELSE IF newItemLength <= 0 THEN childSizes
       ELSE call("resizeByPercentage", <<[childSizes EXCEPT ![i] = si_setSize(@, newSize)],
                               percentages, i + 1, remaining - newItemLength,
                               totalNewLength, lengthChanged, o, containerSize>>)

\* the Side1SeparatorMove / Side2SeparatorMove loop of resizeChildren; i counts from 0
resizeBySeparatorMove(childSizes, i, remaining, isGrowing, resizeHeadFirst, o) ==
    LET count == Len(childSizes)
        index == IF resizeHeadFirst THEN i ELSE count - 1 - i
        sz == childSizes[index + 1]
        took == Min(si_availableLength(sz, o), remaining)
    IN IF i >= count THEN childSizes
       ELSE IF isGrowing
            THEN [childSizes EXCEPT ![index + 1] = si_incrementLength(sz, remaining, o)]
       ELSE IF remaining - took = 0
            THEN [childSizes EXCEPT ![index + 1] = si_incrementLength(sz, -took, o)]
       ELSE call("resizeBySeparatorMove", <<
                [childSizes EXCEPT ![index + 1] = si_incrementLength(sz, -took, o)],
                i + 1, remaining - took, isGrowing, resizeHeadFirst, o>>)

\* children resized from the head of the list, whatever the strategy
resizeChildren_HeadFirst(T, c, oldSize, newSize, childSizes, strategy) ==
    LET o == T[c].m_orientation
        lengthChanged == (isVertical(T, c) /\ oldSize.h # newSize.h)
                             \/ (isHorizontal(T, c) /\ oldSize.w # newSize.w)
        totalNewLength == call("usableLength", <<T, c>>)
        delta == length(newSize, o) - length(oldSize, o)
    IN IF strategy = Percentage
       THEN call("resizeByPercentage", <<childSizes, call("childPercentages", <<T, c>>), 1, totalNewLength,
                               totalNewLength, lengthChanged, o, size(T, c)>>)
       ELSE call("resizeBySeparatorMove", <<childSizes, 0, Abs(delta), delta > 0, TRUE, o>>)

\* children resized from the side that the strategy names, whether the container
\* grows or shrinks
resizeChildren_NamedSideFirst(T, c, oldSize, newSize, childSizes, strategy) ==
    LET o == T[c].m_orientation
        lengthChanged == (isVertical(T, c) /\ oldSize.h # newSize.h)
                             \/ (isHorizontal(T, c) /\ oldSize.w # newSize.w)
        totalNewLength == call("usableLength", <<T, c>>)
        delta == length(newSize, o) - length(oldSize, o)
    IN IF strategy = Percentage
       THEN call("resizeByPercentage", <<childSizes, call("childPercentages", <<T, c>>), 1, totalNewLength,
                               totalNewLength, lengthChanged, o, size(T, c)>>)
       ELSE call("resizeBySeparatorMove", <<childSizes, 0, Abs(delta), delta > 0,
                                  strategy = Side1SeparatorMove, o>>)

\* ItemContainer::resizeChildren; the container already has its new size
resizeChildren(T, c, oldSize, newSize, childSizes, strategy) ==
    LET o == T[c].m_orientation
        widthChanged == oldSize.w # newSize.w
        heightChanged == oldSize.h # newSize.h
        lengthChanged == (isVertical(T, c) /\ heightChanged) \/ (isHorizontal(T, c) /\ widthChanged)
        totalNewLength == call("usableLength", <<T, c>>)
        delta == length(newSize, o) - length(oldSize, o)
        isGrowing == delta > 0
        isSide1SeparatorMove == strategy = Side1SeparatorMove
        resizeHeadFirst == (isGrowing /\ isSide1SeparatorMove) \/ (~isGrowing /\ ~isSide1SeparatorMove)
    IN IF strategy = Percentage
       THEN call("resizeByPercentage", <<childSizes, call("childPercentages", <<T, c>>), 1, totalNewLength,
                               totalNewLength, lengthChanged, o, size(T, c)>>)
       ELSE call("resizeBySeparatorMove", <<childSizes, 0, Abs(delta), isGrowing, resizeHeadFirst, o>>)

\* setSize_recursive without its step #2: the entries keep the lengths that
\* resizeChildren gave them, below their minimum or not
ensureMinLengths_Skipped(childSizes, i, o, oppLength) == childSizes

\* step #2 of setSize_recursive: every entry gets at least its minimum length
ensureMinLengths(childSizes, i, o, oppLength) ==
    IF i >= Len(childSizes) THEN childSizes
    ELSE LET missing == si_missingLength(childSizes[i + 1], o)
         IN call("ensureMinLengths", <<
                IF missing > 0
                THEN call("growItemList", <<childSizes, i, missing, BothSidesEqually, AllNeighbours,
                                  FALSE, o, oppLength>>)
                ELSE childSizes,
                i + 1, o, oppLength>>)

\* a resize that takes any size and leaves the children alone
ItemContainer_setSize_recursive_Unchecked(T, c, newSize, strategy) == setSize(T, c, newSize)

\* ItemContainer::setSize_recursive
ItemContainer_setSize_recursive(T, c, newSize, strategy) ==
    LET block == T[c].m_blockUpdatePercentages
        T0 == [T EXCEPT ![c].m_blockUpdatePercentages = TRUE]
        min == call("minSize", <<T0, c>>)
        oldSize == size(T0, c)
        T1 == setSize(T0, c, newSize)
        T2 == call("sizesCache", <<T1, c>>)
        resized == call("resizeChildren", <<T2, c, oldSize, newSize, call("sizes", <<T2, c>>), strategy>>)
        positioned == call("positionItemsList", <<resized, T2[c].m_orientation, size(T2, c)>>)
        childSizes == call("ensureMinLengths", <<positioned, 0, T2[c].m_orientation, oppositeLength(T2, c)>>)
        T3 == call("applyGeometries", <<T2, c, childSizes, strategy>>)
    IN IF newSize.w < min.w \/ newSize.h < min.h
       THEN [T0 EXCEPT ![c].m_blockUpdatePercentages = block]
       ELSE IF newSize = oldSize THEN [T0 EXCEPT ![c].m_blockUpdatePercentages = block]
       ELSE InOrder(<<T2, resized, positioned, childSizes, T3,
                      [T3 EXCEPT ![c].m_blockUpdatePercentages = block]>>)

\* Item::setSize_recursive / ItemContainer::setSize_recursive
setSize_recursive(T, n, newSize, strategy) ==
    IF T[n].isContainer THEN call("ItemContainer_setSize_recursive", <<T, n, newSize, strategy>>)
    ELSE setSize(T, n, newSize)

\* Item::setLength_recursive / ItemContainer::setLength_recursive
setLength_recursive(T, n, len, o) ==
    IF T[n].isContainer
    THEN call("setSize_recursive", <<T, n,
             IF o = Vertical THEN QSize(width(T, n), len) ELSE QSize(len, height(T, n)),
             Percentage>>)
    ELSE setLength(T, n, len, o)

\* Item::setGeometry_recursive / ItemContainer::setGeometry_recursive
setGeometry_recursive(T, n, r) ==
    IF T[n].isContainer
    THEN call("setSize_recursive", <<setPos(T, n, rectTopLeft(r)), n, rectSize(r), Percentage>>)
    ELSE setGeometry(T, n, r)

\* the loop of applyGeometries from item i (1-based)
applyGeometriesFrom(T, items, childSizes, i, strategy) ==
    IF i > Len(items) THEN T
    ELSE LET T1 == call("setSize_recursive", <<T, items[i], rectSize(childSizes[i].geometry), strategy>>)
         IN InOrder(<<T1, call("applyGeometriesFrom", <<T1, items, childSizes, i + 1, strategy>>)>>)

\* ItemContainer::applyGeometries
applyGeometries(T, c, childSizes, strategy) ==
    LET T1 == call("applyGeometriesFrom", <<T, call("visibleChildren", <<T, c, FALSE>>), childSizes, 1, strategy>>)
    IN InOrder(<<T1, call("positionItems", <<T1, c>>)>>)

\* the loop of applyPositions from item i (1-based)
applyPositionsFrom(T, c, items, childSizes, i) ==
    IF i > Len(items) THEN T
    ELSE IF childSizes[i].isBeingInserted
         THEN call("applyPositionsFrom", <<T, c, items, childSizes, i + 1>>)
         ELSE LET opp == oppositeOrientation(T[c].m_orientation)
                  T1 == call("setLength_recursive", <<T, items[i], si_length(childSizes[i], opp), opp>>)
                  T2 == setPos(T1, items[i], rectTopLeft(childSizes[i].geometry))
              IN InOrder(<<T1, T2, call("applyPositionsFrom", <<T2, c, items, childSizes, i + 1>>)>>)

\* ItemContainer::applyPositions
applyPositions(T, c, childSizes) ==
    call("applyPositionsFrom", <<T, c, call("visibleChildren", <<T, c, FALSE>>), childSizes, 1>>)

\* ItemContainer::positionItems()
positionItems(T, c) ==
    LET T1 == call("sizesCache", <<T, c>>)
        childSizes == call("positionItemsList", <<call("sizes", <<T1, c>>), T1[c].m_orientation, size(T1, c)>>)
        T2 == call("applyPositions", <<T1, c, childSizes>>)
    IN InOrder(<<T1, childSizes, T2, call("updateSeparators_recursive", <<T2, c>>)>>)

\* ItemContainer::growItem(Item *, int amount, ...)
growItem(T, c, item, amount, growthStrategy, neighbourSqueezeStrategy, accountForNewSeparator, childResizeStrategy) ==
    LET index == SeqIndexOf(call("visibleChildren", <<T, c, FALSE>>), item)
        T1 == call("sizesCache", <<T, c>>)
        childSizes == call("growItemList", <<call("sizes", <<T1, c>>), index, amount, growthStrategy,
                                   neighbourSqueezeStrategy, accountForNewSeparator,
                                   T1[c].m_orientation, oppositeLength(T1, c)>>)
    IN InOrder(<<T1, childSizes, call("applyGeometries", <<T1, c, childSizes, childResizeStrategy>>)>>)


\* the slot connectParent() connects to Item::minSizeChanged
emit_minSizeChanged(T, n) ==
    IF parentContainer(T, n) = NoItem THEN T
    ELSE call("onChildMinSizeChanged", <<T, parentContainer(T, n), n>>)

\* a setMinSize that enlarges the item before it tells the parent
setMinSize_NotifyingLast(T, n, sz) ==
    IF sz = T[n].m_sizingInfo.minSize THEN T
    ELSE call("emit_minSizeChanged",
              <<call("setSize_recursive", <<[T EXCEPT ![n].m_sizingInfo.minSize = sz], n,
                                            sizeExpandedTo(size(T, n), sz), Percentage>>),
                n>>)

\* Item::setMinSize
setMinSize(T, n, sz) ==
    IF sz = T[n].m_sizingInfo.minSize THEN T
    ELSE LET T1 == call("emit_minSizeChanged", <<[T EXCEPT ![n].m_sizingInfo.minSize = sz], n>>)
         IN InOrder(<<T1, call("setSize_recursive", <<T1, n, sizeExpandedTo(size(T1, n), sz), Percentage>>)>>)

\* A guest widget as the layout reads it:
\*   [id, minimumSize, minimumSizeHint, geometry]
\* widgetMinSize(const QWidget *)
widgetMinSize(w) ==
    sizeExpandedTo(QSize(IF w.minimumSize.w > 0 THEN w.minimumSize.w ELSE w.minimumSizeHint.w,
                         IF w.minimumSize.h > 0 THEN w.minimumSize.h ELSE w.minimumSizeHint.h),
                   hardcodedMinimumSize)

\* Item::mapFromRoot(QPoint)
RECURSIVE mapFromRootPoint(_, _, _)
mapFromRootPoint(T, n, p) ==
    LET q == QPoint(p.x - itemPos(T, n).x, p.y - itemPos(T, n).y)
    IN IF parentContainer(T, n) = NoItem THEN q
       ELSE mapFromRootPoint(T, parentContainer(T, n), q)
\* Item::mapFromRoot(QRect)
mapFromRootRect(T, n, r) == rectMoveTopLeft(r, mapFromRootPoint(T, n, rectTopLeft(r)))

\* Item::setGuest(nullptr)
clearGuest(T, n) == [T EXCEPT ![n].m_guest = NoGuest]
\* Item::setGuest(guest), guest not null
setGuest(T, n, w) ==
    LET T1 == call("setMinSize", <<[T EXCEPT ![n].m_guest = w.id], n, widgetMinSize(w)>>)
        widgetGeo == rectSetSize(w.geometry,
                                 sizeExpandedTo(rectSize(w.geometry), hardcodedMinimumSize))
    IN InOrder(<<T1, IF rectIsEmpty(T1[n].m_sizingInfo.geometry)
                     THEN setGeometry(T1, n, mapFromRootRect(T1, n, widgetGeo))
                     ELSE T1>>)

\* ItemContainer::updateSizeConstraints
updateSizeConstraints(T, c) ==
    LET missing == call("missingSize", <<T, c>>)
        T1 == IF ~sizeIsNull(missing) /\ isRoot(T, c)
              THEN call("setSize_recursive", <<T, c,
                       QSize(width(T, c) + missing.w, height(T, c) + missing.h), Percentage>>)
              ELSE T
    IN InOrder(<<T1, call("emit_minSizeChanged", <<T1, c>>)>>)

\* ItemContainer::onChildMinSizeChanged
onChildMinSizeChanged(T, c, child) ==
    IF T[c].m_convertingItemToContainer \/ T[c].m_isDeserializing \/ ~isVisible(T, child, FALSE)
    THEN T
    ELSE LET T1 == call("updateSizeConstraints", <<T, c>>)
             missingForChild == call("missingSize", <<T1, child>>)
             T2 == call("growItem", <<T1, c, child, length(missingForChild, T1[c].m_orientation),
                            BothSidesEqually, AllNeighbours, FALSE, Percentage>>)
         IN InOrder(<<T1,
                IF isBeingInserted(T1, child) THEN T1
                ELSE IF numVisibleChildren(T1, c) = 1 /\ isVisible(T1, child, FALSE)
                     THEN call("updateChildPercentages", <<setGeometry(T1, child, rect(T1, c)), c>>)
                ELSE IF ~sizeIsNull(missingForChild)
                     THEN InOrder(<<T2, call("updateChildPercentages", <<T2, c>>)>>)
                ELSE call("updateChildPercentages", <<T1, c>>)>>)

\* ItemContainer::neighboursLengthFor, for o = m_orientation
neighboursLengthFor(T, c, item, side) ==
    LET children == call("visibleChildren", <<T, c, FALSE>>)
        index == SeqIndexOf(children, item)
        from == IF side = Side1 THEN 0 ELSE index + 1
        to == IF side = Side1 THEN index - 1 ELSE Len(children) - 1
    IN IF index = -1 THEN 0
       ELSE SeqSum(Explicit([i \in 1..(to - from + 1) |->
                       itemLength(T, children[from + i], T[c].m_orientation)]))

\* ItemContainer::neighboursMinLengthFor, for o = m_orientation
neighboursMinLengthFor(T, c, item, side) ==
    LET children == call("visibleChildren", <<T, c, FALSE>>)
        index == SeqIndexOf(children, item)
        from == IF side = Side1 THEN 0 ELSE index + 1
        to == IF side = Side1 THEN index - 1 ELSE Len(children) - 1
    IN IF index = -1 THEN 0
       ELSE SeqSum(Explicit([i \in 1..(to - from + 1) |->
                       call("minLength", <<T, children[from + i], T[c].m_orientation>>)]))

\* ItemContainer::availableOnSide
availableOnSide(T, c, child, side) ==
    call("neighboursLengthFor", <<T, c, child, side>>) - call("neighboursMinLengthFor", <<T, c, child, side>>)

\* ItemContainer::availableOnSide_recursive
availableOnSide_recursive(T, c, child, side, orientation) ==
    IF orientation = T[c].m_orientation
    THEN IF isRoot(T, c) THEN call("availableOnSide", <<T, c, child, side>>)
         ELSE call("availableOnSide", <<T, c, child, side>>)
              + call("availableOnSide_recursive", <<T, parentContainer(T, c), c, side, orientation>>)
    ELSE IF isRoot(T, c) THEN 0
         ELSE call("availableOnSide_recursive", <<T, parentContainer(T, c), c, side, orientation>>)

\* ItemContainer::restoreChild
restoreChild(T, c, item, neighbourSqueezeStrategy) ==
    LET hadVisibleChildren == hasVisibleChildren(T, c, TRUE)
        T1 == call("setBeingInserted", <<setIsVisible(T, item, TRUE), item, TRUE>>)
        T2 == IF ~hadVisibleChildren /\ parentContainer(T1, c) # NoItem
              THEN call("restoreChild", <<setSize(T1, c, size(T1, item)), parentContainer(T1, c), c,
                                neighbourSqueezeStrategy>>)
              ELSE T1
        constrained == call("updateSizeConstraints", <<T2, c>>)
        T3 == call("setBeingInserted", <<constrained, item, FALSE>>)
        o == T3[c].m_orientation
        available == call("availableOnSide", <<T3, c, item, Side1>>) + call("availableOnSide", <<T3, c, item, Side2>>)
                     - separatorThickness
        newLength == qBound(call("minLength", <<T3, item, o>>), length(size(T3, item), o), available)
        T4 == IF o = Vertical THEN [T3 EXCEPT ![item].m_sizingInfo.geometry.h = 0]
              ELSE [T3 EXCEPT ![item].m_sizingInfo.geometry.w = 0]
        T5 == IF numVisibleChildren(T3, c) = 1
              THEN call("setGeometry_recursive", <<T3, item, rect(T3, c)>>)
              ELSE call("growItem", <<T4, c, item, newLength, BothSidesEqually, neighbourSqueezeStrategy,
                            TRUE, Percentage>>)
    IN InOrder(<<hadVisibleChildren, T1, T2, constrained, T3, T5,
                 call("updateSeparators_recursive", <<T5, c>>)>>)

\* ItemContainer::visibleNeighbourFor
visibleNeighbourFor(T, c, item, side) ==
    LET index == SeqIndexOf(T[c].m_children, item) + 1
        before == {i \in 1..(index - 1) : isVisible(T, T[c].m_children[i], FALSE)}
        after == {i \in (index + 1)..Len(T[c].m_children) : isVisible(T, T[c].m_children[i], FALSE)}
    IN IF side = Side1
       THEN IF before = {} THEN NoItem
            ELSE T[c].m_children[CHOOSE i \in before : \A j \in before : j <= i]
       ELSE IF after = {} THEN NoItem
            ELSE T[c].m_children[CHOOSE i \in after : \A j \in after : i <= j]

\* ItemContainer::growNeighbours
growNeighbours(T, c, side1Neighbour, side2Neighbour) ==
    IF side1Neighbour = NoItem /\ side2Neighbour = NoItem THEN T
    ELSE IF side1Neighbour # NoItem /\ side2Neighbour # NoItem
    THEN LET g1 == geometry(T, side1Neighbour)
             g2 == geometry(T, side2Neighbour)
             geo1 == IF isVertical(T, c)
                     THEN [g1 EXCEPT !.h = g1.h + quot(g2.y - rectBottom(g1) - separatorThickness, 2)]
                     ELSE [g1 EXCEPT !.w = g1.w + quot(g2.x - rectRight(g1) - separatorThickness, 2)]
             geo2 == IF isVertical(T, c)
                     THEN rectSetTop(g2, rectBottom(geo1) + separatorThickness + 1)
                     ELSE rectSetLeft(g2, rectRight(geo1) + separatorThickness + 1)
             T1 == call("setGeometry_recursive", <<T, side1Neighbour, geo1>>)
         IN InOrder(<<T1, call("setGeometry_recursive", <<T1, side2Neighbour, geo2>>)>>)
    ELSE IF side1Neighbour # NoItem
    THEN LET geo == geometry(T, side1Neighbour)
         IN call("setGeometry_recursive", <<T, side1Neighbour,
                IF isVertical(T, c) THEN rectSetBottom(geo, rectBottom(rect(T, c)))
                ELSE rectSetRight(geo, rectRight(rect(T, c)))>>)
    ELSE LET geo == geometry(T, side2Neighbour)
         IN call("setGeometry_recursive", <<T, side2Neighbour,
                IF isVertical(T, c) THEN rectSetTop(geo, 0) ELSE rectSetLeft(geo, 0)>>)

\* delete item: the node and, as QObject children, everything below it
RECURSIVE descendants(_, _)
descendants(T, n) ==
    {n} \cup UNION {descendants(T, T[n].m_children[i]) : i \in 1..Len(T[n].m_children)}
deleteItem(T, item) == Explicit([n \in DOMAIN T \ descendants(T, item) |-> T[n]])

\* removeItem asking the parent to remove the emptied container softly
removeItem_EmptyContainerKept(T, c, item, hardRemove) ==
    LET side1Item == call("visibleNeighbourFor", <<T, c, item, Side1>>)
        side2Item == call("visibleNeighbourFor", <<T, c, item, Side2>>)
        isContainer == T[item].isContainer
        wasVisible == ~isContainer /\ isVisible(T, item, FALSE)
        T1 == IF hardRemove
              THEN deleteItem([T EXCEPT ![c].m_children = SeqRemoveOne(@, item)], item)
              ELSE clearGuest(setIsVisible(T, item, FALSE), item)
        T2 == call("growNeighbours", <<T1, c, side1Item, side2Item>>)
        T3 == call("updateSizeConstraints", <<T2, c>>)
    IN IF ~contains(T, c, item) THEN call("removeItem", <<T, parentContainer(T, item), item, hardRemove>>)
       ELSE IF ~hardRemove /\ ~wasVisible /\ ~isContainer THEN T1
       ELSE IF isEmpty(T1, c)
            THEN IF parentContainer(T1, c) # NoItem
                 THEN call("removeItem", <<T1, parentContainer(T1, c), c, FALSE>>)
                 ELSE T1
       ELSE IF ~hardRemove /\ ~hasVisibleChildren(T1, c, FALSE)
            THEN IF parentContainer(T1, c) # NoItem
                 THEN LET removed == call("removeItem", <<T1, parentContainer(T1, c), c, FALSE>>)
                      IN InOrder(<<removed, setGeometry(removed, c, NullRect)>>)
                 ELSE T1
       ELSE InOrder(<<T2, T3, call("updateSeparators_recursive", <<T3, c>>)>>)

\* ItemContainer::removeItem
removeItem(T, c, item, hardRemove) ==
    LET side1Item == call("visibleNeighbourFor", <<T, c, item, Side1>>)
        side2Item == call("visibleNeighbourFor", <<T, c, item, Side2>>)
        isContainer == T[item].isContainer
        wasVisible == ~isContainer /\ isVisible(T, item, FALSE)
        T1 == IF hardRemove
              THEN deleteItem([T EXCEPT ![c].m_children = SeqRemoveOne(@, item)], item)
              ELSE clearGuest(setIsVisible(T, item, FALSE), item)
        T2 == call("growNeighbours", <<T1, c, side1Item, side2Item>>)
        T3 == call("updateSizeConstraints", <<T2, c>>)
    IN IF ~contains(T, c, item) THEN call("removeItem", <<T, parentContainer(T, item), item, hardRemove>>)
       ELSE IF ~hardRemove /\ ~wasVisible /\ ~isContainer THEN T1
       ELSE IF isEmpty(T1, c)
            THEN IF parentContainer(T1, c) # NoItem
                 THEN call("removeItem", <<T1, parentContainer(T1, c), c, TRUE>>)
                 ELSE T1
       ELSE IF ~hardRemove /\ ~hasVisibleChildren(T1, c, FALSE)
            THEN IF parentContainer(T1, c) # NoItem
                 THEN LET removed == call("removeItem", <<T1, parentContainer(T1, c), c, FALSE>>)
                      IN InOrder(<<removed, setGeometry(removed, c, NullRect)>>)
                 ELSE T1
       ELSE InOrder(<<T2, T3, call("updateSeparators_recursive", <<T3, c>>)>>)



\* the lowest unused id, for `new Item` / `new ItemContainer`
newId(T) ==
    CHOOSE n \in 1..(Cardinality(DOMAIN T) + 1) :
        n \notin DOMAIN T /\ \A m \in 1..(n - 1) : m \in DOMAIN T

\* ItemContainer::deleteSeparators_recursive
deleteSeparators_recursive(T, c) ==
    Explicit([n \in DOMAIN T |->
        IF n \in descendants(T, c) /\ T[n].isContainer
        THEN [T[n] EXCEPT !.m_separators = << >>] ELSE T[n]])

\* the loop of ItemContainer::setHostWidget over m_children
setHostWidgetOf(T, items, i, host) ==
    IF i > Len(items) THEN T
    ELSE LET T1 == call("setHostWidget", <<T, items[i], host>>)
         IN InOrder(<<T1, call("setHostWidgetOf", <<T1, items, i + 1, host>>)>>)

\* Item::setHostWidget / ItemContainer::setHostWidget
setHostWidget(T, n, host) ==
    LET T1 == [T EXCEPT ![n].m_hostWidget = host]
        T2 == deleteSeparators_recursive(T1, n)
        T3 == call("setHostWidgetOf", <<T2, T1[n].m_children, 1, host>>)
    IN IF ~T[n].isContainer THEN T1
       ELSE InOrder(<<T2, T3, call("updateSeparators_recursive", <<T3, n>>)>>)

\* Item::setParentContainer with Item::connectParent
setParentContainer(T, n, parent) ==
    LET ceasingToBeRoot == T[n].m_parent = NoItem /\ parent # NoItem
        T1 == IF T[n].isContainer /\ ceasingToBeRoot /\ ~hasVisibleChildren(T, n, FALSE)
              THEN setGeometry(T, n, NullRect) ELSE T
        T2 == [T1 EXCEPT ![n].m_parent = parent]
    IN IF parent = T[n].m_parent THEN T
       ELSE IF parent # NoItem THEN call("setHostWidget", <<T2, n, T2[parent].m_hostWidget>>)
       ELSE T2

\* ItemContainer::setOrientation
setOrientation(T, c, o) ==
    IF o # T[c].m_orientation
    THEN call("updateSeparators_recursive", <<[T EXCEPT ![c].m_orientation = o], c>>)
    ELSE T

\* the loop of ItemContainer::setChildren
setParentContainerOf(T, items, i, parent) ==
    IF i > Len(items) THEN T
    ELSE LET T1 == call("setParentContainer", <<T, items[i], parent>>)
         IN InOrder(<<T1, call("setParentContainerOf", <<T1, items, i + 1, parent>>)>>)

\* ItemContainer::setChildren
setChildren(T, c, children, o) ==
    LET T1 == call("setParentContainerOf", <<[T EXCEPT ![c].m_children = children], children, 1, c>>)
    IN InOrder(<<T1, call("setOrientation", <<T1, c, o>>)>>)

\* a container that takes an item at any location as it is
hasOrientationFor_Always(T, c, loc) == TRUE

\* ItemContainer::hasOrientationFor
hasOrientationFor(T, c, loc) ==
    IF Len(T[c].m_children) <= 1 THEN TRUE
    ELSE T[c].m_orientation = orientationForLocation(loc)

\* DefaultSizeMode
DefaultSizeMode_None == "None"
DefaultSizeMode_Fair == "Fair"
DefaultSizeMode_FairButFloor == "FairButFloor"
DefaultSizeMode_ItemSize == "ItemSize"
DefaultSizeMode_SizePolicy == "SizePolicy"

\* a default length that is the item's own length whatever the mode
defaultLengthFor_ItemLength(T, c, item, mode) == itemLength(T, item, T[c].m_orientation)

\* a default length that is not raised to the item's minimum length
defaultLengthFor_Unbounded(T, c, item, mode) ==
    LET numVisible == numVisibleChildren(T, c) + 1
        usable == containerLength(T, c) - separatorThickness * (numVisible - 1)
    IN CASE mode = DefaultSizeMode_Fair -> quot(usable, numVisible)
         [] mode = DefaultSizeMode_FairButFloor ->
               Min(quot(usable, numVisible), itemLength(T, item, T[c].m_orientation))
         [] mode = DefaultSizeMode_ItemSize -> itemLength(T, item, T[c].m_orientation)
         [] OTHER -> 0

\* ItemContainer::Private::defaultLengthFor
defaultLengthFor(T, c, item, mode) ==
    LET numVisible == numVisibleChildren(T, c) + 1
        usable == containerLength(T, c) - separatorThickness * (numVisible - 1)
        fair == Max(call("minLength", <<T, item, T[c].m_orientation>>), quot(usable, numVisible))
        result == CASE mode = DefaultSizeMode_Fair -> quot(usable, numVisible)
                    [] mode = DefaultSizeMode_FairButFloor ->
                          Min(fair, itemLength(T, item, T[c].m_orientation))
                    [] mode = DefaultSizeMode_ItemSize -> itemLength(T, item, T[c].m_orientation)
                    [] OTHER -> 0
    IN Max(call("minLength", <<T, item, T[c].m_orientation>>), result)

\* the first statement of ItemContainer::insertItem(Item *, int index,
\* DefaultSizeMode): the item gets its default length, unless the mode is None
setSuggestedLength(T, c, item, defaultSizeMode) ==
    IF defaultSizeMode # DefaultSizeMode_None
    THEN call("setLength_recursive", <<T, item, call("defaultLengthFor", <<T, c, item, defaultSizeMode>>),
                             T[c].m_orientation>>)
    ELSE T

\* ItemContainer::insertItem(Item *, int index, DefaultSizeMode)
insertItemAt(T, c, item, index, defaultSizeMode) ==
    LET T1 == setSuggestedLength(T, c, item, defaultSizeMode)
        T2 == call("setParentContainer", <<[T1 EXCEPT ![c].m_children = SeqInsert(@, index, item)], item, c>>)
    IN InOrder(<<T1, T2, IF ~T2[c].m_convertingItemToContainer /\ isVisible(T2, item, FALSE)
                         THEN call("restoreChild", <<T2, c, item, AllNeighbours>>)
                         ELSE T2>>)

\* ItemContainer::scheduleCheckSanity
scheduleCheckSanity(T, c) == [T EXCEPT ![c].m_checkSanityScheduled = TRUE]

\* the branch of ItemContainer::insertItem(Item *, Location, ...) taken when the
\* container has another orientation: the children move into a new container
wrapChildren(T, c) ==
    LET container == newId(T)
        T1 == Explicit([n \in DOMAIN T \cup {container} |->
                  IF n = container THEN NewItemContainer(T, T[c].m_hostWidget, c) ELSE T[n]])
        T2 == call("setChildren", <<setGeometry(T1, container, rect(T1, c)), container,
                          T1[c].m_children, T1[c].m_orientation>>)
        T3 == call("setOrientation", <<[T2 EXCEPT ![c].m_children = << >>], c,
                             oppositeOrientation(T2[c].m_orientation)>>)
    IN InOrder(<<T1, T2, T3, call("insertItemAt", <<T3, c, container, 0, DefaultSizeMode_None>>)>>)

\* ItemContainer::insertItem(Item *, Location, DefaultSizeMode, AddingOption)
ItemContainer_insertItem(T, c, item, loc, defaultSizeMode, startHidden) ==
    LET T1 == setIsVisible(T, item, ~startHidden)
        T2 == IF Len(T1[c].m_children) = 1
              THEN [T1 EXCEPT ![c].m_orientation = orientationForLocation(loc)]
              ELSE T1
        index == IF locationIsSide1(loc) THEN 0 ELSE Len(T2[c].m_children)
        container == newId(T1)
        wrapped == call("wrapChildren", <<T1, c>>)
        T3 == call("ItemContainer_insertItem", <<wrapped, c, item, loc, defaultSizeMode, startHidden>>)
        T4 == IF ~hasVisibleChildren(T3, container, FALSE)
              THEN setGeometry(T3, container, NullRect) ELSE T3
        done == IF hasOrientationFor(T1, c, loc)
                THEN call("insertItemAt", <<T2, c, item, index, defaultSizeMode>>)
                ELSE InOrder(<<wrapped, T3, T4>>)
        updated == call("updateSeparators_recursive", <<done, c>>)
    IN IF contains(T, c, item) THEN T
       ELSE InOrder(<<done, updated, scheduleCheckSanity(updated, c)>>)

\* a conversion that leaves m_convertingItemToContainer set when it returns
convertChildToContainer_StillConverting(T, c, leaf) ==
    LET T0 == [T EXCEPT ![c].m_convertingItemToContainer = TRUE]
        index == SeqIndexOf(T0[c].m_children, leaf)
        container == newId(T0)
        T1 == Explicit([n \in DOMAIN T0 \cup {container} |->
                  IF n = container THEN NewItemContainer(T0, T0[c].m_hostWidget, c) ELSE T0[n]])
        T2 == call("setParentContainer", <<call("setParentContainer", <<T1, container, NoItem>>), container, c>>)
        T3 == call("insertItemAt", <<T2, c, container, index, DefaultSizeMode_None>>)
        T4 == setGeometry([T3 EXCEPT ![c].m_children = SeqRemoveOne(@, leaf)], container,
                          geometry(T3, leaf))
        T5 == call("ItemContainer_insertItem", <<T4, container, leaf, Location_OnTop,
                                       DefaultSizeMode_None, FALSE>>)
    IN InOrder(<<T1, T2, T3, T4, T5, call("updateSeparators_recursive", <<T5, c>>)>>)

\* ItemContainer::convertChildToContainer; the new container is newId(T)
convertChildToContainer(T, c, leaf) ==
    LET converting == T[c].m_convertingItemToContainer
        T0 == [T EXCEPT ![c].m_convertingItemToContainer = TRUE]
        index == SeqIndexOf(T0[c].m_children, leaf)
        container == newId(T0)
        T1 == Explicit([n \in DOMAIN T0 \cup {container} |->
                  IF n = container THEN NewItemContainer(T0, T0[c].m_hostWidget, c) ELSE T0[n]])
        T2 == call("setParentContainer", <<call("setParentContainer", <<T1, container, NoItem>>), container, c>>)
        T3 == call("insertItemAt", <<T2, c, container, index, DefaultSizeMode_None>>)
        T4 == setGeometry([T3 EXCEPT ![c].m_children = SeqRemoveOne(@, leaf)], container,
                          geometry(T3, leaf))
        T5 == call("ItemContainer_insertItem", <<T4, container, leaf, Location_OnTop,
                                       DefaultSizeMode_None, FALSE>>)
        T6 == call("updateSeparators_recursive", <<T5, c>>)
    IN InOrder(<<T1, T2, T3, T4, T5, T6,
                 [T6 EXCEPT ![c].m_convertingItemToContainer = converting]>>)

\* Item::insertItem(Item *, Location, DefaultSizeMode, AddingOption): insert
\* `item` relative to the leaf `self`
Item_insertItem(T, self, item, loc, defaultSizeMode, startHidden) ==
    LET T1 == setIsVisible(T, item, ~startHidden)
        parent == T1[self].m_parent
        indexInParent == SeqIndexOf(T1[parent].m_children, self)
                         + (IF locationIsSide1(loc) THEN 0 ELSE 1)
        T2 == IF orientationForLocation(loc) # T1[parent].m_orientation
              THEN call("setOrientation", <<T1, parent, orientationForLocation(loc)>>)
              ELSE T1
    IN IF hasOrientationFor(T1, parent, loc)
       THEN call("insertItemAt", <<T2, parent, item, indexInParent, defaultSizeMode>>)
       ELSE LET converted == call("convertChildToContainer", <<T1, parent, self>>)
            IN InOrder(<<converted,
                         call("ItemContainer_insertItem", <<converted, newId(T1), item, loc,
                                                  defaultSizeMode, startHidden>>)>>)

\* Item::turnIntoPlaceholder
turnIntoPlaceholder(T, n) == call("removeItem", <<T, parentContainer(T, n), n, FALSE>>)

\* a restore that squeezes all the neighbours for the leaf's length, not the
\* immediate ones first
restore_SqueezingAllNeighbours(T, n, w) ==
    LET T1 == call("setGuest", <<T, n, w>>)
    IN InOrder(<<T1, call("restoreChild", <<T1, parentContainer(T, n), n, AllNeighbours>>)>>)

\* Item::restore: a container is not restored
restore(T, n, w) ==
    LET T1 == call("setGuest", <<T, n, w>>)
    IN IF T[n].isContainer THEN T
       ELSE InOrder(<<T1, call("restoreChild", <<T1, parentContainer(T, n), n, ImmediateNeighboursFirst>>)>>)


(***************************************************************************)
(* Separator moves.  A separator is named by its container and its index   *)
(* in m_separators.                                                        *)
(***************************************************************************)
NoSeparator == <<NoItem, -1>>

\* ItemContainer::neighbourSeparator
neighbourSeparator(T, c, item, side, orientation) ==
    LET itemIndex == SeqIndexOf(call("visibleChildren", <<T, c, FALSE>>), item)
        separatorIndex == IF side = Side1 THEN itemIndex - 1 ELSE itemIndex
    IN IF itemIndex = -1 THEN NoSeparator
       ELSE IF orientation # T[c].m_orientation
            THEN IF isRoot(T, c) THEN NoSeparator
                 ELSE call("neighbourSeparator", <<T, parentContainer(T, c), c, side, orientation>>)
       ELSE IF separatorIndex < 0 \/ separatorIndex >= Len(T[c].m_separators) THEN NoSeparator
       ELSE <<c, separatorIndex>>

\* children.at(index) of a QVector, index from 0.  Past the end of the list the
\* assertion of QVector::at aborts; where it is compiled out the call gives the
\* memory after the array, `read`: the address of an item of the layout that an
\* earlier list has left there, or NoItem for a value that is no item's address
childAt(children, index, read) ==
    IF index < Len(children) THEN children[index + 1] ELSE read

\* ItemContainer::minPosForSeparator_global
minPosForSeparator_global(T, c, separatorIndex, read) ==
    LET item == childAt(call("visibleChildren", <<T, c, FALSE>>), separatorIndex + 1, read)
    IN T[c].m_separators[separatorIndex + 1].position
       - call("availableOnSide_recursive", <<T, c, item, Side1, T[c].m_orientation>>)

\* ItemContainer::maxPosForSeparator_global
maxPosForSeparator_global(T, c, separatorIndex, read) ==
    LET item == childAt(call("visibleChildren", <<T, c, FALSE>>), separatorIndex, read)
    IN T[c].m_separators[separatorIndex + 1].position
       + call("availableOnSide_recursive", <<T, c, item, Side2, T[c].m_orientation>>)

\* the local part of requestSeparatorMove: <<tree after growItem, tookLocally>>
separatorMoveLocally(T, c, separatorIndex, delta, read) ==
    LET neighbour == IF delta < 0 THEN childAt(T[c].m_children, separatorIndex + 1, read)
                     ELSE childAt(T[c].m_children, separatorIndex, read)
        available == IF delta < 0 THEN call("availableOnSide", <<T, c, neighbour, Side1>>)
                     ELSE call("availableOnSide", <<T, c, neighbour, Side2>>)
        tookLocally == Min(available, Abs(delta))
    IN IF tookLocally = 0 THEN <<T, 0>>
       ELSE IF delta < 0
            THEN <<call("growItem", <<T, c, neighbour, tookLocally, Side1Only, ImmediateNeighboursFirst,
                            FALSE, Side1SeparatorMove>>), tookLocally>>
            ELSE <<call("growItem", <<T, c, neighbour, tookLocally, Side2Only, ImmediateNeighboursFirst,
                            FALSE, Side2SeparatorMove>>), tookLocally>>

\* a requestSeparatorMove without the out-of-bounds check
separatorMoveProceeds_Unchecked(T, c, separatorIndex, delta, read) ==
    delta # 0 /\ Len(call("visibleChildren", <<T, c, FALSE>>)) > separatorIndex

\* whether requestSeparatorMove goes past its out-of-bounds and index checks
separatorMoveProceeds(T, c, separatorIndex, delta, read) ==
    LET position == T[c].m_separators[separatorIndex + 1].position
    IN /\ delta # 0
       /\ position + delta >= call("minPosForSeparator_global", <<T, c, separatorIndex, read>>)
       /\ position + delta <= call("maxPosForSeparator_global", <<T, c, separatorIndex, read>>)
       /\ Len(call("visibleChildren", <<T, c, FALSE>>)) > separatorIndex

\* minPosForSeparator_global reads children.at(separatorIndex + 1) past the end of
\* the visible children: the container has a separator that separates nothing
separatorReadOutOfRange(T, c, separatorIndex, delta) ==
    /\ delta # 0
    /\ separatorIndex + 1 >= Len(call("visibleChildren", <<T, c, FALSE>>))

\* ItemContainer::requestSeparatorMove, or a call of it on the separator of an
\* ancestor that it makes, reads past the end of the visible children
requestSeparatorMoveReadsPastTheEnd(T, c, separatorIndex, delta, read) ==
    LET moved == call("separatorMoveLocally", <<T, c, separatorIndex, delta, read>>)
        remainingToTake == Abs(delta) - moved[2]
        moveDirection == IF delta < 0 THEN Side1 ELSE Side2
        nextSeparator == call("neighbourSeparator", <<moved[1], parentContainer(moved[1], c), c,
                                            moveDirection, moved[1][c].m_orientation>>)
    IN \/ separatorReadOutOfRange(T, c, separatorIndex, delta)
       \/ /\ call("separatorMoveProceeds", <<T, c, separatorIndex, delta, read>>)
          /\ remainingToTake > 0
          /\ ~isRoot(T, c)
          /\ nextSeparator # NoSeparator
          /\ call("requestSeparatorMoveReadsPastTheEnd",
                  <<moved[1], nextSeparator[1], nextSeparator[2],
                    IF delta < 0 THEN -remainingToTake ELSE remainingToTake, read>>)

\* ItemContainer::requestSeparatorMove, or a call of it on the separator of an
\* ancestor that it makes, dereferences a null nextSeparator
requestSeparatorMoveFaults(T, c, separatorIndex, delta, read) ==
    LET moved == call("separatorMoveLocally", <<T, c, separatorIndex, delta, read>>)
        remainingToTake == Abs(delta) - moved[2]
        moveDirection == IF delta < 0 THEN Side1 ELSE Side2
        nextSeparator == call("neighbourSeparator", <<moved[1], parentContainer(moved[1], c), c,
                                            moveDirection, moved[1][c].m_orientation>>)
    IN /\ call("separatorMoveProceeds", <<T, c, separatorIndex, delta, read>>)
       /\ remainingToTake > 0
       /\ ~isRoot(T, c)
       /\ \/ nextSeparator = NoSeparator
          \/ call("requestSeparatorMoveFaults", <<moved[1], nextSeparator[1], nextSeparator[2],
                                        IF delta < 0 THEN -remainingToTake
                                        ELSE remainingToTake, read>>)

\* ItemContainer::requestSeparatorMove
requestSeparatorMove(T, c, separatorIndex, delta, read) ==
    LET moved == call("separatorMoveLocally", <<T, c, separatorIndex, delta, read>>)
        remainingToTake == Abs(delta) - moved[2]
        moveDirection == IF delta < 0 THEN Side1 ELSE Side2
        nextSeparator == call("neighbourSeparator", <<moved[1], parentContainer(moved[1], c), c,
                                            moveDirection, moved[1][c].m_orientation>>)
    IN IF ~call("separatorMoveProceeds", <<T, c, separatorIndex, delta, read>>) THEN T
       ELSE InOrder(<<moved,
                IF remainingToTake > 0 /\ ~isRoot(T, c)
                THEN call("requestSeparatorMove", <<moved[1], nextSeparator[1], nextSeparator[2],
                         IF delta < 0 THEN -remainingToTake ELSE remainingToTake, read>>)
                ELSE moved[1]>>)

\* the values that a read past the end of a list of children can give in this
\* layout: NoItem, or an item of the layout.  Only a container with a separator
\* that separates nothing makes such a read.
pastTheEnd(T) ==
    IF \E c \in DOMAIN T :
           /\ T[c].isContainer
           /\ Len(T[c].m_separators) > 0
           /\ Len(T[c].m_separators) >= Len(call("visibleChildren", <<T, c, FALSE>>))
    THEN {NoItem} \cup DOMAIN T
    ELSE {NoItem}

\* whether a call of requestSeparatorMove ends in a crash: it does when it
\* dereferences a null nextSeparator, and whether it does is undefined when it
\* reads past the end of a list
separatorMoveCrashes(T, c, separatorIndex, delta, read) ==
    IF call("requestSeparatorMoveFaults", <<T, c, separatorIndex, delta, read>>) THEN {TRUE}
    ELSE IF call("requestSeparatorMoveReadsPastTheEnd", <<T, c, separatorIndex, delta, read>>)
         THEN BOOLEAN
    ELSE {FALSE}


(***************************************************************************)
(* Serialization.  A QVariantMap is a record; a key that toVariantMap      *)
(* leaves out ("guestId" of an item without guest) reads back as the       *)
(* default value, 0.                                                       *)
(***************************************************************************)
sizeToMap(sz) == [width |-> sz.w, height |-> sz.h]
rectToMap(r) == [x |-> r.x, y |-> r.y, width |-> r.w, height |-> r.h]
mapToSize(map) == QSize(map.width, map.height)
mapToRect(map) == QRect(map.x, map.y, map.width, map.height)

\* the int values of Qt::Orientation
orientationToInt(o) == IF o = Horizontal THEN 1 ELSE 2
intToOrientation(i) == IF i = 1 THEN Horizontal ELSE Vertical

\* SizingInfo::toVariantMap
SizingInfo_toVariantMap(si) ==
    [geometry |-> rectToMap(si.geometry),
     minSize |-> sizeToMap(si.minSize),
     maxSize |-> sizeToMap(si.maxSize)]

\* SizingInfo::fromVariantMap
SizingInfo_fromVariantMap(map) ==
    [SizingInfo EXCEPT !.geometry = mapToRect(map.geometry),
                       !.minSize = mapToSize(map.minSize),
                       !.maxSize = mapToSize(map.maxSize)]

\* Item::toVariantMap / ItemContainer::toVariantMap
RECURSIVE toVariantMap(_, _)
toVariantMap(T, n) ==
    IF T[n].isContainer
    THEN [sizingInfo |-> SizingInfo_toVariantMap(T[n].m_sizingInfo),
          isVisible |-> T[n].m_isVisible,
          isContainer |-> TRUE,
          guestId |-> T[n].m_guest,
          children |-> Explicit([i \in 1..Len(T[n].m_children) |->
                                    toVariantMap(T, T[n].m_children[i])]),
          orientation |-> orientationToInt(T[n].m_orientation)]
    ELSE [sizingInfo |-> SizingInfo_toVariantMap(T[n].m_sizingInfo),
          isVisible |-> T[n].m_isVisible,
          isContainer |-> FALSE,
          guestId |-> T[n].m_guest]

\* Item::fillFromVariantMap; widgets maps guest ids to guest widgets
Item_fillFromVariantMap(T, n, map, widgets) ==
    LET T1 == [T EXCEPT ![n].m_sizingInfo = SizingInfo_fromVariantMap(map.sizingInfo),
                        ![n].m_isVisible = map.isVisible]
    IN IF map.guestId # NoGuest /\ map.guestId \in DOMAIN widgets
       THEN call("setGuest", <<T1, n, widgets[map.guestId]>>)
       ELSE T1

\* ItemContainer::updateChildPercentages_recursive
updateChildPercentagesOf(T, items, i) ==
    IF i > Len(items) THEN T
    ELSE IF T[items[i]].isContainer
         THEN LET T1 == call("updateChildPercentages_recursive", <<T, items[i]>>)
              IN InOrder(<<T1, call("updateChildPercentagesOf", <<T1, items, i + 1>>)>>)
         ELSE call("updateChildPercentagesOf", <<T, items, i + 1>>)
updateChildPercentages_recursive(T, c) ==
    LET T1 == call("updateChildPercentages", <<T, c>>)
    IN InOrder(<<T1, call("updateChildPercentagesOf", <<T1, T[c].m_children, 1>>)>>)

\* Item::fillFromVariantMap / ItemContainer::fillFromVariantMap
\* the loop of ItemContainer::fillFromVariantMap over childrenV
fillChildren(T, c, childrenV, i, widgets) ==
    LET child == newId(T)
        T1 == T @@ (child :> IF childrenV[i].isContainer
                             THEN NewItemContainer(T, T[c].m_hostWidget, c)
                             ELSE NewItem(T, T[c].m_hostWidget, c))
        T2 == call("fillFromVariantMap", <<T1, child, childrenV[i], widgets>>)
        T3 == [T2 EXCEPT ![c].m_children = Append(@, child)]
    IN IF i > Len(childrenV) THEN T
       ELSE InOrder(<<T1, T2, T3, call("fillChildren", <<T3, c, childrenV, i + 1, widgets>>)>>)

fillFromVariantMap(T, n, map, widgets) ==
    LET deserializing == T[n].m_isDeserializing
        T1 == call("Item_fillFromVariantMap", <<[T EXCEPT ![n].m_isDeserializing = TRUE], n, map, widgets>>)
        T2 == call("fillChildren", <<[T1 EXCEPT ![n].m_orientation = intToOrientation(map.orientation)],
                           n, map.children, 1, widgets>>)
        T3 == call("updateChildPercentages_recursive", <<T2, n>>)
        T4 == IF T3[n].m_hostWidget # NoHost THEN call("updateSeparators_recursive", <<T3, n>>) ELSE T3
    IN IF ~T[n].isContainer THEN call("Item_fillFromVariantMap", <<T, n, map, widgets>>)
       ELSE IF isRoot(T, n)
            THEN InOrder(<<T1, T2, T3, T4, [T4 EXCEPT ![n].m_isDeserializing = deserializing]>>)
            ELSE InOrder(<<T1, T2, [T2 EXCEPT ![n].m_isDeserializing = deserializing]>>)


(***************************************************************************)
(* The layouts a host builds before it operates on them.                   *)
(***************************************************************************)
\* guest widgets: minimumSize and geometry (minimumSizeHint is 0x0)
SmallGuest == [minimumSize |-> QSize(0, 0), geometry |-> QRect(0, 0, 200, 200)]
LargeGuest == [minimumSize |-> QSize(300, 250), geometry |-> QRect(0, 0, 100, 100)]

\* a widget that has not been given to a layout yet: it has no parent
Guest(id, profile) ==
    [id |-> id, minimumSize |-> profile.minimumSize, minimumSizeHint |-> QSize(0, 0),
     geometry |-> profile.geometry, parent |-> NoHost]

\* w->setGeometry(r) of a QWidget: the widget keeps its size within its
\* minimumSize()
QWidget_setGeometry(w, r) ==
    [w EXCEPT !.geometry = rectSetSize(r, sizeExpandedTo(rectSize(r), w.minimumSize))]

\* the guest widgets as the items of the tree leave them: Item::setGuest,
\* Item::setHostWidget and Item::fillFromVariantMap make the item's host the
\* parent of its guest, and Item::updateWidgetGeometries, run at every
\* setGeometry of the item or of a container above it, gives the guest the
\* item's rectangle in the coordinates of the root
updateWidgetGeometries(T, widgets) ==
    Explicit([g \in DOMAIN widgets |->
        LET items == {n \in DOMAIN T : ~T[n].isContainer /\ T[n].m_guest = g}
            item == CHOOSE n \in items : TRUE
        IN IF items = {} THEN widgets[g]
           ELSE [QWidget_setGeometry(widgets[g], mapToRootRect(T, item, rect(T, item)))
                     EXCEPT !.parent = T[item].m_hostWidget]])

\* new Item(hostWidget) followed by item->setGuest(guest)
createItem(tree, w) == call("setGuest", <<tree @@ (newId(tree) :> NewItem(tree, HostWidget, NoItem)), newId(tree), w>>)

\* new ItemContainer(hostWidget): a root with a host and no geometry
NewRoot == (Root :> NewItemContainer(NoTree, HostWidget, NoItem))

\* the layout a host builds with root->setSize_recursive(sz), two items inserted
\* in the root side by side and a third inserted at `loc` relative to the second
NestedLayout(sz, loc, profile) ==
    LET T0 == call("setSize_recursive", <<NewRoot, Root, sz, Percentage>>)
        w1 == Guest(newId(T0), LargeGuest)
        T1 == call("ItemContainer_insertItem", <<call("createItem", <<T0, w1>>), Root, w1.id, Location_OnLeft,
                                       DefaultSizeMode_Fair, FALSE>>)
        w2 == Guest(newId(T1), SmallGuest)
        T2 == call("ItemContainer_insertItem", <<call("createItem", <<T1, w2>>), Root, w2.id, Location_OnRight,
                                       DefaultSizeMode_Fair, FALSE>>)
        w3 == Guest(newId(T2), profile)
        T3 == call("Item_insertItem", <<call("createItem", <<T2, w3>>), w2.id, w3.id, loc,
                              DefaultSizeMode_Fair, FALSE>>)
    IN InOrder(<<T0, T1, T2, T3,
                 [tree |-> T3, widgets |-> (w1.id :> w1) @@ (w2.id :> w2) @@ (w3.id :> w3)]>>)


(***************************************************************************)
(* The sanity check.  checkSanity returns [ok, tree]: what it returned and *)
(* the tree it left.  The sum of the percentages, doubles in the source,   *)
(* is computed on the fractions they were divided from; a sum of fractions *)
(* of denominators below 10^4 that is not 1 is off by more than 10^-8,     *)
(* far beyond what qFuzzyCompare lets through.                             *)
(***************************************************************************)
RECURSIVE GCD(_, _)
GCD(a, b) == IF b = 0 THEN a ELSE GCD(b, a % b)

\* the sum of the percentages ps[i..], added to the fraction acc
RECURSIVE sumOfPercentages(_, _, _)
sumOfPercentages(ps, i, acc) ==
    IF i > Len(ps) THEN acc
    ELSE LET n == acc.n * ps[i].d + ps[i].n * acc.d
             d == acc.d * ps[i].d
             g == GCD(n, d)
         IN sumOfPercentages(ps, i + 1, [n |-> n \div g, d |-> d \div g])

\* Item::checkSanity, with the guest widgets as they are
Item_checkSanity(T, n, widgets) ==
    IF root(T, n) = NoItem THEN TRUE
    ELSE IF call("minSize", <<T, n>>).w > width(T, n) \/ call("minSize", <<T, n>>).h > height(T, n)
    THEN FALSE
    ELSE IF ~T[n].isContainer /\ T[n].m_guest # NoGuest
    THEN IF widgets[T[n].m_guest].parent # T[n].m_hostWidget THEN FALSE
         ELSE widgets[T[n].m_guest].geometry = mapToRootRect(T, n, rect(T, n))
    ELSE TRUE

\* the first loop of ItemContainer::checkSanity, from the visible child i: some
\* child is not at the position expected
RECURSIVE unexpectedPos(_, _, _, _, _)
unexpectedPos(T, c, items, i, expectedPos) ==
    IF i > Len(items) THEN FALSE
    ELSE LET p == pos(itemPos(T, items[i]), T[c].m_orientation)
         IN \/ expectedPos # p
            \/ unexpectedPos(T, c, items, i + 1,
                             p + itemLength(T, items[i], T[c].m_orientation)
                               + separatorThickness)

\* the checks of ItemContainer::checkSanity on the separator with this index
separatorIsSane(T, c, i) ==
    LET separator == T[c].m_separators[i + 1]
        item == call("visibleChildren", <<T, c, FALSE>>)[i + 1]
        expectedSeparatorPos == mapToRoot(T, c, si_edge(T[item].m_sizingInfo, T[c].m_orientation) + 1,
                                          T[c].m_orientation)
        origin == mapToRootPoint(T, c, QPoint(0, 0))
        pos2 == pos(origin, oppositeOrientation(T[c].m_orientation))
        separatorMinPos == call("minPosForSeparator_global", <<T, c, i, NoItem>>)
        separatorMaxPos == call("maxPosForSeparator_global", <<T, c, i, NoItem>>)
    IN /\ separator.position = expectedSeparatorPos
       /\ separator.length = oppositeLength(T, c)
       /\ separator.pos2 = pos2
       /\ ~(\/ separator.position < separatorMinPos
            \/ separator.position > separatorMaxPos
            \/ separatorMinPos <= 0
            \/ separatorMaxPos <= 0)

\* the second loop of ItemContainer::checkSanity, from child i (1-based)
checkChildren(T, c, i, widgets) ==
    IF i > Len(T[c].m_children) THEN [ok |-> TRUE, tree |-> T]
    ELSE LET item == T[c].m_children[i]
             o == oppositeOrientation(T[c].m_orientation)
             h1 == length(size(T, c), o)
             h2 == length(size(T, item), o)
             checked == call("checkSanity", <<T, item, widgets>>)
         IN IF parentContainer(T, item) # c THEN [ok |-> FALSE, tree |-> T]
            ELSE IF isVisible(T, item, FALSE)
                    /\ (h1 # h2 \/ ~rectContains(rect(T, c), geometry(T, item)))
                 THEN [ok |-> FALSE, tree |-> T]
            ELSE IF ~checked.ok THEN checked
            ELSE InOrder(<<checked, call("checkChildren", <<checked.tree, c, i + 1, widgets>>)>>)

\* ItemContainer::checkSanity, without DOCKS_DEVELOPER_MODE
ItemContainer_checkSanity(T, c, widgets) ==
    LET T1 == [T EXCEPT ![c].m_checkSanityScheduled = FALSE]
        visible == SelectSeq(T1[c].m_children, LAMBDA item : isVisible(T1, item, FALSE))
        children == call("checkChildren", <<T1, c, 1, widgets>>)
        T2 == children.tree
        visibleChildren_ == call("visibleChildren", <<T2, c, FALSE>>)
        isEmptyRoot == isRoot(T2, c) /\ visibleChildren_ = << >>
        lengths == [i \in 1..Len(visibleChildren_) |->
                       itemLength(T2, visibleChildren_[i], T2[c].m_orientation)]
        occupied == Max(0, separatorThickness * (Len(visibleChildren_) - 1)) + SeqSum(lengths)
        totalPercentage == sumOfPercentages(call("childPercentages", <<T2, c>>), 1, ZeroPercentage)
        expectedPercentage == IF visibleChildren_ = << >> THEN 0 ELSE 1
    IN IF T1[c].m_hostWidget = NoHost THEN [ok |-> TRUE, tree |-> T1]
       ELSE IF ~Item_checkSanity(T1, c, widgets) THEN [ok |-> FALSE, tree |-> T1]
       ELSE IF numChildren(T1, c) = 0 /\ ~isRoot(T1, c) THEN [ok |-> FALSE, tree |-> T1]
       ELSE IF unexpectedPos(T1, c, visible, 1, 0) THEN [ok |-> FALSE, tree |-> T1]
       ELSE IF ~children.ok THEN children
       ELSE IF ~isEmptyRoot /\ occupied # containerLength(T2, c) THEN [ok |-> FALSE, tree |-> T2]
       ELSE IF ~isEmptyRoot /\ totalPercentage # [n |-> expectedPercentage, d |-> 1]
            THEN [ok |-> FALSE, tree |-> call("updateSeparators_recursive", <<T2, c>>)]
       ELSE IF Len(T2[c].m_separators) # Max(0, Len(visibleChildren_) - 1)
            THEN [ok |-> FALSE, tree |-> T2]
       ELSE [ok |-> \A i \in 0..(Len(T2[c].m_separators) - 1) : separatorIsSane(T2, c, i),
             tree |-> T2]

\* item->checkSanity()
checkSanity(T, n, widgets) ==
    IF T[n].isContainer THEN call("ItemContainer_checkSanity", <<T, n, widgets>>)
    ELSE [ok |-> Item_checkSanity(T, n, widgets), tree |-> T]


\* Item::ref
Item_ref(T, n) == [T EXCEPT ![n].m_refCount = @ + 1]

\* Item::unref
Item_unref(T, n) ==
    LET T1 == [T EXCEPT ![n].m_refCount = @ - 1]
    IN IF T1[n].m_refCount = 0
       THEN call("removeItem", <<T1, parentContainer(T1, n), n, TRUE>>)
       ELSE T1

\* a destroyed guest whose item is removed whatever its reference count
onWidgetDestroyed_IgnoringRefCount(T, n) ==
    IF ~isRoot(T, n) THEN call("removeItem", <<T, parentContainer(T, n), n, TRUE>>)
    ELSE T

\* Item::onWidgetDestroyed
onWidgetDestroyed(T, n) ==
    IF T[n].m_refCount # 0 THEN turnIntoPlaceholder(T, n)
    ELSE IF ~isRoot(T, n) THEN call("removeItem", <<T, parentContainer(T, n), n, TRUE>>)
    ELSE T

\* Item::pathFromRoot: the indexes that lead from the root to the item
RECURSIVE pathFromRoot(_, _)
pathFromRoot(T, n) ==
    IF parentContainer(T, n) = NoItem THEN << >>
    ELSE pathFromRoot(T, parentContainer(T, n))
             \o <<SeqIndexOf(T[parentContainer(T, n)].m_children, n)>>

\* ItemContainer::itemFromPath; NoItem for an index that leads nowhere
RECURSIVE itemFromPath(_, _, _, _)
itemFromPath(T, c, path, i) ==
    IF i > Len(path) THEN c
    ELSE IF path[i] < 0 \/ path[i] >= Len(T[c].m_children) THEN NoItem
    ELSE LET child == T[c].m_children[path[i] + 1]
         IN IF i = Len(path) THEN child
            ELSE IF ~T[child].isContainer THEN NoItem
            ELSE itemFromPath(T, child, path, i + 1)

\* ItemContainer::suggestedDropRectFallback; relativeTo is an item of the tree R,
\* or NoItem
suggestedDropRectFallback(T, c, item, R, relativeTo, loc) ==
    LET itemMin == length(call("minSize", <<T, item>>), T[c].m_orientation)
        available == call("availableLength", <<T, c>>) - separatorThickness
        relativeToGeo == geometry(R, relativeTo)
        halfLength == itemLength(R, relativeTo, orientationForLocation(loc)) \div 2
        suggestedPos == CASE loc = Location_OnLeft -> relativeToGeo.x
                          [] loc = Location_OnTop -> relativeToGeo.y
                          [] loc = Location_OnRight -> rectRight(relativeToGeo) - halfLength + 1
                          [] loc = Location_OnBottom -> rectBottom(relativeToGeo) - halfLength + 1
        beside == IF orientationForLocation(loc) = Vertical
                  THEN QRect(R[relativeTo].m_sizingInfo.geometry.x, suggestedPos,
                             width(R, relativeTo), halfLength)
                  ELSE QRect(suggestedPos, R[relativeTo].m_sizingInfo.geometry.y,
                             halfLength, height(R, relativeTo))
        whole == rect(T, c)
        oneThird == containerLength(T, c) \div 3
        suggestedLength == Max(Min(available, oneThird), itemMin)
    IN IF relativeTo # NoItem THEN mapToRootRect(T, c, beside)
       ELSE IF isRoot(T, c)
            THEN CASE loc = Location_OnLeft -> [whole EXCEPT !.w = suggestedLength]
                   [] loc = Location_OnTop -> [whole EXCEPT !.h = suggestedLength]
                   [] loc = Location_OnRight ->
                          rectSetLeft(whole, whole.x + (whole.w - suggestedLength))
                   [] loc = Location_OnBottom ->
                          rectSetTop(whole, whole.y + (rectBottom(whole) - suggestedLength))
                   [] OTHER -> NullRect
       ELSE NullRect

\* the copy of the layout that suggestedDropRect inserts a copy of the item in:
\* rootCopy has been filled from the root's variant map without widgets;
\* relativeTo is found again by its path, itemCopy is filled from the item's
\* variant map and inserted with the virtual insertItem: that of ItemContainer
\* for a relativeTo that is a container, that of Item for a leaf
dropCopy(T, rootCopy, item, relativeTo, loc) ==
    LET relativeToCopy == IF relativeTo # NoItem
                          THEN itemFromPath(rootCopy, Root, pathFromRoot(T, relativeTo), 1)
                          ELSE NoItem
        itemCopy == newId(rootCopy)
    IN [tree |-> IF relativeToCopy # NoItem /\ rootCopy[relativeToCopy].isContainer
                 THEN call("ItemContainer_insertItem",
                           <<call("Item_fillFromVariantMap",
                                  <<rootCopy @@ (itemCopy :> NewItem(rootCopy, NoHost, NoItem)), itemCopy,
                                    toVariantMap(T, item), << >> >>),
                             relativeToCopy, itemCopy, loc, DefaultSizeMode_FairButFloor, FALSE>>)
                 ELSE IF relativeToCopy # NoItem
                 THEN call("Item_insertItem",
                           <<call("Item_fillFromVariantMap",
                                  <<rootCopy @@ (itemCopy :> NewItem(rootCopy, NoHost, NoItem)), itemCopy,
                                    toVariantMap(T, item), << >> >>),
                             relativeToCopy, itemCopy, loc, DefaultSizeMode_FairButFloor, FALSE>>)
                 ELSE call("ItemContainer_insertItem",
                           <<call("Item_fillFromVariantMap",
                                  <<rootCopy @@ (itemCopy :> NewItem(rootCopy, NoHost, NoItem)), itemCopy,
                                    toVariantMap(T, item), << >> >>),
                             Root, itemCopy, loc, DefaultSizeMode_FairButFloor, FALSE>>),
        itemCopy |-> itemCopy,
        relativeTo |-> relativeToCopy]

\* the geometry of itemCopy in its parent, not mapped to the root
dropRectOfCopy_Unmapped(T, c, item, copy, loc) == copy.tree[copy.itemCopy].m_sizingInfo.geometry

\* the end of ItemContainer::suggestedDropRect: the rectangle of itemCopy, or the
\* fallback when the copy of the root has grown
dropRectOfCopy(T, c, item, copy, loc) ==
    IF size(copy.tree, Root) # size(T, Root)
    THEN suggestedDropRectFallback(T, c, item, copy.tree, copy.relativeTo, loc)
    ELSE mapToRootRect(copy.tree, copy.itemCopy, rect(copy.tree, copy.itemCopy))

\* a query that inserts the item in the layout itself and reads its geometry
dropRectInPlace(inserted, item) ==
    [rect |-> mapToRootRect(inserted, item, rect(inserted, item)), tree |-> inserted]
suggestedDropRect_InPlace(T, c, item, relativeTo, loc) ==
    IF relativeTo # NoItem /\ (parentContainer(T, relativeTo) # c \/ ~isVisible(T, relativeTo, FALSE))
    THEN [rect |-> NullRect, tree |-> T]
    ELSE IF loc = Location_None THEN [rect |-> NullRect, tree |-> T]
    ELSE call("dropRectInPlace",
              <<IF relativeTo # NoItem
                THEN call("Item_insertItem", <<T, relativeTo, item, loc,
                                               DefaultSizeMode_FairButFloor, FALSE>>)
                ELSE call("ItemContainer_insertItem", <<T, Root, item, loc,
                                                        DefaultSizeMode_FairButFloor, FALSE>>),
                item>>)

\* windowNeedsGrowing of ItemContainer::suggestedDropRect: the root has not the
\* room for the item's minimum size and a separator
windowNeedsGrowing(T, item, loc) ==
    LET availableSz == call("availableSize", <<T, Root>>)
        minSz == call("minSize", <<T, item>>)
        isEmptyRoot == ~hasVisibleChildren(T, Root, FALSE)
        extraWidth == IF isEmptyRoot \/ locationIsVertical(loc) THEN 0 ELSE separatorThickness
        extraHeight == IF isEmptyRoot \/ ~locationIsVertical(loc) THEN 0 ELSE separatorThickness
    IN \/ availableSz.w < minSz.w + extraWidth
       \/ availableSz.h < minSz.h + extraHeight

\* ItemContainer::suggestedDropRect, a const method: the rectangle returned and
\* the tree it leaves; item is a node without parent
suggestedDropRect(T, c, item, relativeTo, loc) ==
    [tree |-> T,
     rect |->
         IF relativeTo # NoItem /\ parentContainer(T, relativeTo) = NoItem THEN NullRect
         ELSE IF relativeTo # NoItem /\ parentContainer(T, relativeTo) # c THEN NullRect
         ELSE IF relativeTo # NoItem /\ ~isVisible(T, relativeTo, FALSE) THEN NullRect
         ELSE IF loc = Location_None THEN NullRect
         ELSE IF windowNeedsGrowing(T, item, loc)
              THEN suggestedDropRectFallback(T, c, item, T, relativeTo, loc)
         ELSE call("dropRectOfCopy",
                   <<T, c, item,
                     call("dropCopy",
                          <<T, call("fillFromVariantMap",
                                    <<(Root :> NewItemContainer(NoTree, NoHost, NoItem)), Root,
                                      toVariantMap(T, Root), << >> >>),
                            item, relativeTo, loc>>),
                     loc>>)]

\* the layout of NestedLayout(sz, loc, SmallGuest) after leaf -> insertItem(new
\* item with this profile, deeper) on its third leaf: with loc above or below
\* and deeper to the left or right, a horizontal root holds a vertical container
\* that holds a horizontal container; when flanked, the root has then taken one
\* more leaf on its right
DeepLayout(sz, loc, deeper, profile, flanked) ==
    LET nested == call("NestedLayout", <<sz, loc, SmallGuest>>)
        w4 == Guest(newId(nested.tree), profile)
        T4 == call("Item_insertItem", <<call("createItem", <<nested.tree, w4>>), 3, w4.id, deeper,
                              DefaultSizeMode_Fair, FALSE>>)
        w5 == Guest(newId(T4), SmallGuest)
        T5 == call("ItemContainer_insertItem", <<call("createItem", <<T4, w5>>), Root, w5.id,
                                       Location_OnRight, DefaultSizeMode_Fair, FALSE>>)
    IN IF flanked
       THEN InOrder(<<nested, T4, T5,
                      [tree |-> T5, widgets |-> nested.widgets @@ (w4.id :> w4) @@ (w5.id :> w5)]>>)
       ELSE InOrder(<<nested, T4, [tree |-> T4, widgets |-> nested.widgets @@ (w4.id :> w4)]>>)

\* what a call of ItemContainer::requestSeparatorMove leaves of |delta| untaken:
\* 0 when the move and the moves of the ancestors' separators have taken it all.
\* For a call that reads nothing past the end of a list.
separatorMoveShortfall(T, c, separatorIndex, delta) ==
    LET moved == call("separatorMoveLocally", <<T, c, separatorIndex, delta, NoItem>>)
        remainingToTake == Abs(delta) - moved[2]
        moveDirection == IF delta < 0 THEN Side1 ELSE Side2
        nextSeparator == call("neighbourSeparator", <<moved[1], parentContainer(moved[1], c), c,
                                            moveDirection, moved[1][c].m_orientation>>)
    IN IF ~call("separatorMoveProceeds", <<T, c, separatorIndex, delta, NoItem>>) THEN Abs(delta)
       ELSE IF remainingToTake = 0 THEN 0
       ELSE IF isRoot(T, c) THEN remainingToTake
       ELSE IF nextSeparator = NoSeparator THEN remainingToTake
       ELSE call("separatorMoveShortfall", <<moved[1], nextSeparator[1], nextSeparator[2],
                     IF delta < 0 THEN -remainingToTake ELSE remainingToTake>>)

\* Item::setMaxSize
setMaxSize(T, n, sz) == [T EXCEPT ![n].m_sizingInfo.maxSize = sz]

\* ItemContainer::clear: every child is deleted, a container with all that is
\* below it, and the container is left without children and separators
clear(T, c) ==
    Explicit([n \in DOMAIN T \ (descendants(T, c) \ {c}) |->
                 IF n = c THEN [T[n] EXCEPT !.m_children = << >>, !.m_separators = << >>]
                 ELSE T[n]])

\* the delta that ItemContainer::requestEqualSize passes to requestSeparatorMove,
\* 0 when it returns without a move
equalSizeDelta(T, c, separatorIndex, read) ==
    LET children == call("visibleChildren", <<T, c, FALSE>>)
        side1Item == childAt(children, separatorIndex, read)
        side2Item == childAt(children, separatorIndex + 1, read)
        length1 == itemLength(T, side1Item, T[c].m_orientation)
        length2 == itemLength(T, side2Item, T[c].m_orientation)
        newLength == quot(length1 + length2, 2)
        delta == IF length1 < newLength THEN newLength - length1
                 ELSE IF length2 < newLength THEN -(newLength - length2)
                 ELSE 0
        position == T[c].m_separators[separatorIndex + 1].position
        newPos == qBound(call("minPosForSeparator_global", <<T, c, separatorIndex, read>>),
                         position + delta,
                         call("maxPosForSeparator_global", <<T, c, separatorIndex, read>>))
    IN IF Abs(length1 - length2) <= 1 THEN 0 ELSE newPos - position

\* ItemContainer::requestEqualSize reads children.at(separatorIndex + 1) past the
\* end of the visible children: the container has a separator that separates
\* nothing
equalSizeReadOutOfRange(T, c, separatorIndex) ==
    separatorIndex + 1 >= Len(call("visibleChildren", <<T, c, FALSE>>))

\* ItemContainer::requestEqualSize
requestEqualSize(T, c, separatorIndex, read) ==
    IF call("equalSizeDelta", <<T, c, separatorIndex, read>>) # 0
    THEN call("requestSeparatorMove", <<T, c, separatorIndex,
                                        call("equalSizeDelta", <<T, c, separatorIndex, read>>), read>>)
    ELSE T

\* ItemContainer::requestEqualSize takes the length of what it has read past the
\* end of the visible children, and that is no item of the layout
equalSizeReadsNoItem(T, c, separatorIndex, read) ==
    equalSizeReadOutOfRange(T, c, separatorIndex) /\ read = NoItem

\* whether a call of requestEqualSize ends in a crash: undefined when it reads
\* past the end of a list, and else as for the requestSeparatorMove it makes
equalSizeCrashes(T, c, separatorIndex, read) ==
    IF equalSizeReadOutOfRange(T, c, separatorIndex) THEN BOOLEAN
    ELSE IF call("equalSizeDelta", <<T, c, separatorIndex, read>>) = 0 THEN {FALSE}
    ELSE separatorMoveCrashes(T, c, separatorIndex,
                              call("equalSizeDelta", <<T, c, separatorIndex, read>>), read)

\* the leaves at and below n that have a guest, in the order in which
\* fillFromVariantMap meets their maps: toVariantMap writes "guestId" for them
RECURSIVE guestItems(_, _)
RECURSIVE guestItemsOf(_, _, _)
guestItemsOf(T, items, i) ==
    IF i > Len(items) THEN << >>
    ELSE guestItems(T, items[i]) \o guestItemsOf(T, items, i + 1)
guestItems(T, n) ==
    IF T[n].isContainer THEN guestItemsOf(T, T[n].m_children, 1)
    ELSE IF T[n].m_guest # NoGuest THEN <<n>>
    ELSE << >>

\* Item::eventFilter of each of `items` in turn, at the QEvent::ParentChange of
\* its guest: the guest has been given a parent other than the item's host
RECURSIVE eventFilter(_, _, _, _)
eventFilter(T, items, i, newParent) ==
    IF i > Len(items) THEN T
    ELSE IF newParent # T[items[i]].m_hostWidget
    THEN eventFilter(turnIntoPlaceholder(T, items[i]), items, i + 1, newParent)
    ELSE eventFilter(T, items, i + 1, newParent)

\* the call of a method of the layout: `method` names it, `args` is the tuple of
\* its arguments
call(method, args) ==
    CASE method = "visibleChildren" ->
          visibleChildren(args[1], args[2], args[3])
      [] method = "suggestedDropRect" ->
          suggestedDropRect(args[1], args[2], args[3], args[4], args[5])
      [] method = "dropRectInPlace" ->
          dropRectInPlace(args[1], args[2])
      [] method = "dropCopy" ->
          dropCopy(args[1], args[2], args[3], args[4], args[5])
      [] method = "dropRectOfCopy" ->
          dropRectOfCopy(args[1], args[2], args[3], args[4], args[5])
      [] method = "checkSanity" ->
          checkSanity(args[1], args[2], args[3])
      [] method = "checkChildren" ->
          checkChildren(args[1], args[2], args[3], args[4])
      [] method = "ItemContainer_checkSanity" ->
          ItemContainer_checkSanity(args[1], args[2], args[3])
      [] method = "minSize" ->
          minSize(args[1], args[2])
      [] method = "usableLength" ->
          usableLength(args[1], args[2])
      [] method = "minLength" ->
          minLength(args[1], args[2], args[3])
      [] method = "missingSize" ->
          missingSize(args[1], args[2])
      [] method = "availableSize" ->
          availableSize(args[1], args[2])
      [] method = "availableLength" ->
          availableLength(args[1], args[2])
      [] method = "setSize_recursive" ->
          setSize_recursive(args[1], args[2], args[3], args[4])
      [] method = "ItemContainer_setSize_recursive" ->
          ItemContainer_setSize_recursive(args[1], args[2], args[3], args[4])
      [] method = "setLength_recursive" ->
          setLength_recursive(args[1], args[2], args[3], args[4])
      [] method = "setGeometry_recursive" ->
          setGeometry_recursive(args[1], args[2], args[3])
      [] method = "applyGeometries" ->
          applyGeometries(args[1], args[2], args[3], args[4])
      [] method = "applyGeometriesFrom" ->
          applyGeometriesFrom(args[1], args[2], args[3], args[4], args[5])
      [] method = "positionItems" ->
          positionItems(args[1], args[2])
      [] method = "applyPositions" ->
          applyPositions(args[1], args[2], args[3])
      [] method = "applyPositionsFrom" ->
          applyPositionsFrom(args[1], args[2], args[3], args[4], args[5])
      [] method = "updateSeparators_recursive" ->
          updateSeparators_recursive(args[1], args[2])
      [] method = "updateSeparatorsOf" ->
          updateSeparatorsOf(args[1], args[2], args[3])
      [] method = "updateSeparators" ->
          updateSeparators(args[1], args[2])
      [] method = "updateChildPercentages" ->
          updateChildPercentages(args[1], args[2])
      [] method = "sizes" ->
          sizes(args[1], args[2])
      [] method = "sizesCache" ->
          sizesCache(args[1], args[2])
      [] method = "childPercentages" ->
          childPercentages(args[1], args[2])
      [] method = "requiredSeparatorPositions" ->
          requiredSeparatorPositions(args[1], args[2])
      [] method = "growItem" ->
          growItem(args[1], args[2], args[3], args[4], args[5], args[6], args[7], args[8])
      [] method = "growItemList" ->
          growItemList(args[1], args[2], args[3], args[4], args[5], args[6], args[7], args[8])
      [] method = "shrinkNeighbours" ->
          shrinkNeighbours(args[1], args[2], args[3], args[4], args[5], args[6])
      [] method = "calculateSqueezes" ->
          calculateSqueezes(args[1], args[2], args[3], args[4], args[5])
      [] method = "squeezeAll" ->
          squeezeAll(args[1], args[2], args[3])
      [] method = "squeezePass" ->
          squeezePass(args[1], args[2], args[3], args[4], args[5])
      [] method = "squeezeImmediate" ->
          squeezeImmediate(args[1], args[2], args[3], args[4], args[5])
      [] method = "growthPerSide" ->
          growthPerSide(args[1], args[2], args[3], args[4], args[5])
      [] method = "lengthOnSide" ->
          lengthOnSide(args[1], args[2], args[3], args[4])
      [] method = "positionItemsList" ->
          positionItemsList(args[1], args[2], args[3])
      [] method = "positionItemsFrom" ->
          positionItemsFrom(args[1], args[2], args[3], args[4], args[5])
      [] method = "resizeChildren" ->
          resizeChildren(args[1], args[2], args[3], args[4], args[5], args[6])
      [] method = "resizeByPercentage" ->
          resizeByPercentage(args[1], args[2], args[3], args[4], args[5], args[6], args[7], args[8])
      [] method = "resizeBySeparatorMove" ->
          resizeBySeparatorMove(args[1], args[2], args[3], args[4], args[5], args[6])
      [] method = "ensureMinLengths" ->
          ensureMinLengths(args[1], args[2], args[3], args[4])
      [] method = "truncatedProduct" ->
          truncatedProduct(args[1], args[2], args[3])
      [] method = "divisionRoundsDown" ->
          divisionRoundsDown(args[1], args[2])
      [] method = "divisionRemainder" ->
          divisionRemainder(args[1], args[2])
      [] method = "restoreChild" ->
          restoreChild(args[1], args[2], args[3], args[4])
      [] method = "updateSizeConstraints" ->
          updateSizeConstraints(args[1], args[2])
      [] method = "onChildMinSizeChanged" ->
          onChildMinSizeChanged(args[1], args[2], args[3])
      [] method = "emit_minSizeChanged" ->
          emit_minSizeChanged(args[1], args[2])
      [] method = "removeItem" ->
          removeItem(args[1], args[2], args[3], args[4])
      [] method = "setBeingInserted" ->
          setBeingInserted(args[1], args[2], args[3])
      [] method = "setMinSize" ->
          setMinSize(args[1], args[2], args[3])
      [] method = "setGuest" ->
          setGuest(args[1], args[2], args[3])
      [] method = "growNeighbours" ->
          growNeighbours(args[1], args[2], args[3], args[4])
      [] method = "visibleNeighbourFor" ->
          visibleNeighbourFor(args[1], args[2], args[3], args[4])
      [] method = "setHostWidget" ->
          setHostWidget(args[1], args[2], args[3])
      [] method = "setHostWidgetOf" ->
          setHostWidgetOf(args[1], args[2], args[3], args[4])
      [] method = "setParentContainer" ->
          setParentContainer(args[1], args[2], args[3])
      [] method = "setOrientation" ->
          setOrientation(args[1], args[2], args[3])
      [] method = "setParentContainerOf" ->
          setParentContainerOf(args[1], args[2], args[3], args[4])
      [] method = "setChildren" ->
          setChildren(args[1], args[2], args[3], args[4])
      [] method = "defaultLengthFor" ->
          defaultLengthFor(args[1], args[2], args[3], args[4])
      [] method = "insertItemAt" ->
          insertItemAt(args[1], args[2], args[3], args[4], args[5])
      [] method = "wrapChildren" ->
          wrapChildren(args[1], args[2])
      [] method = "ItemContainer_insertItem" ->
          ItemContainer_insertItem(args[1], args[2], args[3], args[4], args[5], args[6])
      [] method = "convertChildToContainer" ->
          convertChildToContainer(args[1], args[2], args[3])
      [] method = "Item_insertItem" ->
          Item_insertItem(args[1], args[2], args[3], args[4], args[5], args[6])
      [] method = "turnIntoPlaceholder" ->
          turnIntoPlaceholder(args[1], args[2])
      [] method = "restore" ->
          restore(args[1], args[2], args[3])
      [] method = "neighboursLengthFor" ->
          neighboursLengthFor(args[1], args[2], args[3], args[4])
      [] method = "neighboursMinLengthFor" ->
          neighboursMinLengthFor(args[1], args[2], args[3], args[4])
      [] method = "availableOnSide" ->
          availableOnSide(args[1], args[2], args[3], args[4])
      [] method = "availableOnSide_recursive" ->
          availableOnSide_recursive(args[1], args[2], args[3], args[4], args[5])
      [] method = "neighbourSeparator" ->
          neighbourSeparator(args[1], args[2], args[3], args[4], args[5])
      [] method = "minPosForSeparator_global" ->
          minPosForSeparator_global(args[1], args[2], args[3], args[4])
      [] method = "maxPosForSeparator_global" ->
          maxPosForSeparator_global(args[1], args[2], args[3], args[4])
      [] method = "separatorMoveLocally" ->
          separatorMoveLocally(args[1], args[2], args[3], args[4], args[5])
      [] method = "separatorMoveProceeds" ->
          separatorMoveProceeds(args[1], args[2], args[3], args[4], args[5])
      [] method = "equalSizeDelta" ->
          equalSizeDelta(args[1], args[2], args[3], args[4])
      [] method = "requestEqualSize" ->
          requestEqualSize(args[1], args[2], args[3], args[4])
      [] method = "requestSeparatorMove" ->
          requestSeparatorMove(args[1], args[2], args[3], args[4], args[5])
      [] method = "requestSeparatorMoveFaults" ->
          requestSeparatorMoveFaults(args[1], args[2], args[3], args[4], args[5])
      [] method = "requestSeparatorMoveReadsPastTheEnd" ->
          requestSeparatorMoveReadsPastTheEnd(args[1], args[2], args[3], args[4], args[5])
      [] method = "Item_fillFromVariantMap" ->
          Item_fillFromVariantMap(args[1], args[2], args[3], args[4])
      [] method = "updateChildPercentages_recursive" ->
          updateChildPercentages_recursive(args[1], args[2])
      [] method = "updateChildPercentagesOf" ->
          updateChildPercentagesOf(args[1], args[2], args[3])
      [] method = "fillFromVariantMap" ->
          fillFromVariantMap(args[1], args[2], args[3], args[4])
      [] method = "fillChildren" ->
          fillChildren(args[1], args[2], args[3], args[4], args[5])
      [] method = "createItem" ->
          createItem(args[1], args[2])
      [] method = "NestedLayout" ->
          NestedLayout(args[1], args[2], args[3])
      [] method = "DeepLayout" ->
          DeepLayout(args[1], args[2], args[3], args[4], args[5])
      [] method = "separatorMoveShortfall" ->
          separatorMoveShortfall(args[1], args[2], args[3], args[4])


(***************************************************************************)
(* The layout as a state machine: one action per public operation.         *)
(***************************************************************************)
VARIABLES
    T,          \* the layout tree: node id -> node, the root container being Root
    guests,     \* the guest widgets attached to leaves: guest id -> widget
    restored,   \* the tree last filled from root's toVariantMap() and the widgets it
                \* was given, or NotRestored
    opsLeft,    \* number of operations the host may still perform
    faulted,    \* the process dereferenced a null pointer
    prev,       \* the layout tree before the last operation on it, or NoTree
    before,     \* the tree when a sequence of root resizes began, or NoTree
    resizes,    \* number of root resizes performed in that sequence
    timers,     \* number of QTimer::singleShot(0, root, checkSanity) calls that
                \* have not fired yet
    dropRect    \* what the last suggestedDropRect returned, or NoDropRect

vars == <<T, guests, restored, opsLeft, faulted, prev, before, resizes, timers, dropRect>>

NoDropRect == << >>

\* the containers whose m_checkSanityScheduled is set
scheduled(tree) == {c \in DOMAIN tree : tree[c].isContainer /\ tree[c].m_checkSanityScheduled}

\* number of QTimer::singleShot calls that ItemContainer::scheduleCheckSanity made
\* while an operation without checkSanity took the tree from `old` to `new`: one
\* for each container whose flag it found unset
singleShots(old, new) ==
    Cardinality({c \in scheduled(new) : c \notin DOMAIN old \/ c \notin scheduled(old)})

MaxOps == 4
MaxNestedOps == 2
MaxLeaves == 3

NoWidgets == << >>
NotRestored == [tree |-> NoTree, widgets |-> NoWidgets]

\* sizes the host gives the root
RootSizes == {QSize(1000, 600), QSize(500, 700)}
GuestProfiles == {SmallGuest, LargeGuest}
Locations == {Location_OnLeft, Location_OnTop, Location_OnRight, Location_OnBottom}
InsertModes == {DefaultSizeMode_Fair, DefaultSizeMode_ItemSize}
SeparatorDeltas == {-120, 120}
MinSizes == {QSize(50, 50), QSize(400, 120)}
\* sizes the host gives the root in a resize sequence
ResizeSizes == {QSize(1303, 907), QSize(1711, 600), QSize(1000, 1013), QSize(2000, 1200)}

leaves(tree) == {n \in DOMAIN tree : ~tree[n].isContainer}
containers(tree) == {n \in DOMAIN tree : tree[n].isContainer}

NestedLayouts(rootSizes) ==
    {call("NestedLayout", <<sz, loc, profile>>) : sz \in rootSizes, loc \in Locations,
                                      profile \in GuestProfiles}

Init ==
    /\ T = NewRoot
    /\ guests = NoWidgets
    /\ restored = NotRestored
    /\ opsLeft = MaxOps
    /\ faulted = FALSE
    /\ prev = NoTree
    /\ before = NoTree
    /\ resizes = 0
    /\ timers = Cardinality(scheduled(T))
    /\ dropRect = NoDropRect

\* a host that has built a layout with a nested container
InitNested ==
    /\ \E layout \in NestedLayouts(RootSizes) : T = layout.tree /\ guests = updateWidgetGeometries(layout.tree, layout.widgets)
    /\ restored = NotRestored
    /\ opsLeft = MaxNestedOps
    /\ faulted = FALSE
    /\ prev = NoTree
    /\ before = NoTree
    /\ resizes = 0
    /\ timers = Cardinality(scheduled(T))
    /\ dropRect = NoDropRect

\* a host about to resize the root of a layout with a nested container
InitResize ==
    /\ \E layout \in NestedLayouts(RootSizes) : T = layout.tree /\ guests = updateWidgetGeometries(layout.tree, layout.widgets)
    /\ restored = NotRestored
    /\ opsLeft = 0
    /\ faulted = FALSE
    /\ prev = NoTree
    /\ before = NoTree
    /\ resizes = 0
    /\ timers = Cardinality(scheduled(T))
    /\ dropRect = NoDropRect

\* one operation of the host on the layout.  A tree filled from the variant map
\* is a separate object: the operations on the layout go on from the state
\* where it has been dropped.
Step(tree, widgets) ==
    /\ ~faulted
    /\ restored = NotRestored
    /\ opsLeft > 0
    /\ T' = tree
    /\ guests' = updateWidgetGeometries(tree, widgets)
    /\ opsLeft' = opsLeft - 1
    /\ prev' = T
    /\ timers' = timers + singleShots(T, tree)
    /\ UNCHANGED <<restored, faulted, before, resizes, dropRect>>

\* root->setSize_recursive(sz)
SetSize ==
    \E sz \in RootSizes :
        Step(call("setSize_recursive", <<T, Root, sz, Percentage>>), guests)

\* root->insertItem(item, loc, mode) with a new item
InsertItem ==
    \E loc \in Locations, profile \in GuestProfiles, mode \in InsertModes :
        LET w == Guest(newId(T), profile)
        IN /\ Cardinality(leaves(T)) < MaxLeaves
           /\ Step(call("ItemContainer_insertItem", <<call("createItem", <<T, w>>), Root, w.id, loc, mode, FALSE>>),
                   guests @@ (w.id :> w))

\* relativeTo->insertItem(item, loc) with a new item, relativeTo a visible leaf
InsertItemRelativeTo ==
    \E relativeTo \in leaves(T), loc \in Locations, profile \in GuestProfiles :
        LET w == Guest(newId(T), profile)
        IN /\ Cardinality(leaves(T)) < MaxLeaves
           /\ isVisible(T, relativeTo, FALSE)
           /\ Step(call("Item_insertItem", <<call("createItem", <<T, w>>), relativeTo, w.id, loc,
                                   DefaultSizeMode_Fair, FALSE>>),
                   guests @@ (w.id :> w))

\* the guests without the one with this id
withoutGuest(widgets, id) == Explicit([g \in DOMAIN widgets \ {id} |-> widgets[g]])

\* root->removeItem(item, hardRemove)
RemoveItem ==
    \E item \in leaves(T), hardRemove \in BOOLEAN :
        Step(call("removeItem", <<T, Root, item, hardRemove>>), withoutGuest(guests, T[item].m_guest))

\* item->restore(guest) on a placeholder
Restore ==
    \E item \in leaves(T), profile \in GuestProfiles :
        LET w == Guest(item, profile)
        IN /\ ~isVisible(T, item, FALSE)
           /\ T[item].m_guest = NoGuest
           /\ Step(call("restore", <<T, item, w>>), guests @@ (w.id :> w))

\* item->setMinSize(sz)
SetMinSize ==
    \E item \in leaves(T), sz \in MinSizes :
        Step(call("setMinSize", <<T, item, sz>>), guests)

\* container->requestSeparatorMove(separator, delta).  A read past the end of the
\* visible children is undefined: the process crashes, or the call goes on with
\* the value read, which availableOnSide only looks up in the visible children.
RequestSeparatorMove ==
    \E c \in containers(T), delta \in SeparatorDeltas, read \in pastTheEnd(T) :
        \E separatorIndex \in 0..(Len(T[c].m_separators) - 1) :
            /\ ~faulted
            /\ restored = NotRestored
            /\ opsLeft > 0
            /\ faulted' \in separatorMoveCrashes(T, c, separatorIndex, delta, read)
            /\ T' = IF faulted' THEN T
                    ELSE call("requestSeparatorMove", <<T, c, separatorIndex, delta, read>>)
            /\ opsLeft' = opsLeft - 1
            /\ prev' = T
            /\ guests' = updateWidgetGeometries(T', guests)
            /\ UNCHANGED <<restored, before, resizes, timers, dropRect>>

\* fresh->fillFromVariantMap(root->toVariantMap(), widgets) on a new root with a
\* host, with the guests of the tree or with none
Deserialize ==
    \E widgets \in {guests, NoWidgets} :
        /\ ~faulted
        /\ restored = NotRestored
        /\ restored' = [tree |-> call("fillFromVariantMap", <<NewRoot, Root, toVariantMap(T, Root),
                                                    widgets>>),
                        widgets |-> widgets]
        /\ UNCHANGED <<T, guests, opsLeft, faulted, prev, before, resizes, timers, dropRect>>

Next ==
    \/ SetSize
    \/ InsertItem
    \/ InsertItemRelativeTo
    \/ RemoveItem
    \/ Restore
    \/ SetMinSize
    \/ RequestSeparatorMove
    \/ Deserialize

Spec == Init /\ [][Next]_vars

\* the same operations on a layout that already has a nested container
SpecNested == InitNested /\ [][Next]_vars

\* root->setSize_recursive(root->size()): the first call of a resize sequence
ResizeSame ==
    /\ resizes = 0
    /\ before' = T
    /\ T' = call("setSize_recursive", <<T, Root, size(T, Root), Percentage>>)
    /\ resizes' = 1
    /\ prev' = T
    /\ guests' = updateWidgetGeometries(T', guests)
    /\ UNCHANGED <<restored, opsLeft, faulted, timers, dropRect>>

\* root->setSize_recursive(sz) with sz no smaller than the root's minimum size
ResizeAway ==
    \E sz \in ResizeSizes :
        /\ resizes = 1
        /\ sz.w >= call("minSize", <<T, Root>>).w
        /\ sz.h >= call("minSize", <<T, Root>>).h
        /\ T' = call("setSize_recursive", <<T, Root, sz, Percentage>>)
        /\ resizes' = 2
        /\ prev' = T
        /\ guests' = updateWidgetGeometries(T', guests)
        /\ UNCHANGED <<restored, opsLeft, faulted, before, timers, dropRect>>

\* root->setSize_recursive(s0), s0 being the size the sequence began with
ResizeBack ==
    /\ resizes = 2
    /\ T' = call("setSize_recursive", <<T, Root, size(before, Root), Percentage>>)
    /\ resizes' = 3
    /\ prev' = T
    /\ guests' = updateWidgetGeometries(T', guests)
    /\ UNCHANGED <<restored, opsLeft, faulted, before, timers, dropRect>>

NextResize ==
    \/ ResizeSame
    \/ ResizeAway
    \/ ResizeBack

SpecResize == InitResize /\ [][NextResize]_vars

\* both hosts: the one that starts from the new root and the one that has built
\* a layout with a nested container
SpecAll == (Init \/ InitNested) /\ [][Next]_vars


(***************************************************************************)
(* A host that has built a row of leaves, hidden at most one of them, and  *)
(* then drags separators.                                                  *)
(***************************************************************************)
SeparatorMoves == {-450, -100, 100, 450}
MaxSeparatorMoves == 2
RowProfiles ==
    {<<SmallGuest, SmallGuest>>, <<SmallGuest, SmallGuest, SmallGuest>>,
     <<LargeGuest, SmallGuest, SmallGuest>>,
     <<SmallGuest, SmallGuest, SmallGuest, SmallGuest>>}

\* the host adds the widgets profiles[i..] to the root, each at loc:
\* ItemContainer::insertItem(new Item(hostWidget) with the guest, loc)
RECURSIVE insertedInRow(_, _, _, _)
insertedInRow(layout, loc, profiles, i) ==
    IF i > Len(profiles) THEN layout
    ELSE LET w == Guest(newId(layout.tree), profiles[i])
             tree == call("ItemContainer_insertItem",
                          <<call("createItem", <<layout.tree, w>>), Root, w.id, loc,
                            DefaultSizeMode_Fair, FALSE>>)
         IN insertedInRow([tree |-> tree, widgets |-> layout.widgets @@ (w.id :> w)],
                          loc, profiles, i + 1)

\* a root of size sz with one leaf per profile, and leaf `hidden` (0: none)
\* turned into a placeholder by ItemContainer::removeItem(item, hardRemove=false)
RowLayout(sz, loc, profiles, hidden) ==
    LET empty == [tree |-> call("setSize_recursive", <<NewRoot, Root, sz, Percentage>>),
                  widgets |-> NoWidgets]
        built == insertedInRow(empty, loc, profiles, 1)
    IN IF hidden = 0 THEN built
       ELSE [tree |-> call("removeItem", <<built.tree, Root, hidden, FALSE>>),
             widgets |-> withoutGuest(built.widgets, hidden)]

InitSeparator ==
    /\ \/ \E sz \in RootSizes, loc \in {Location_OnRight, Location_OnBottom},
             profiles \in RowProfiles :
             \E hidden \in 0..Len(profiles) :
                 \E layout \in {RowLayout(sz, loc, profiles, hidden)} :
                     T = layout.tree /\ guests = updateWidgetGeometries(layout.tree, layout.widgets)
       \/ \E layout \in NestedLayouts(RootSizes) :
             T = layout.tree /\ guests = updateWidgetGeometries(layout.tree, layout.widgets)
    /\ restored = NotRestored
    /\ opsLeft = MaxSeparatorMoves
    /\ faulted = FALSE
    /\ prev = NoTree
    /\ before = NoTree
    /\ resizes = 0
    /\ timers = Cardinality(scheduled(T))
    /\ dropRect = NoDropRect

\* ItemContainer::requestSeparatorMove(separator, delta), for the drags of this host
MoveSeparator ==
    \E c \in containers(T), delta \in SeparatorMoves, read \in pastTheEnd(T) :
        \E separatorIndex \in 0..(Len(T[c].m_separators) - 1) :
            /\ ~faulted
            /\ opsLeft > 0
            /\ faulted' \in separatorMoveCrashes(T, c, separatorIndex, delta, read)
            /\ T' = IF faulted' THEN T
                    ELSE call("requestSeparatorMove", <<T, c, separatorIndex, delta, read>>)
            /\ opsLeft' = opsLeft - 1
            /\ prev' = T
            /\ guests' = updateWidgetGeometries(T', guests)
            /\ UNCHANGED <<restored, before, resizes, timers, dropRect>>

\* container->requestEqualSize(separator): a double click on a separator.  A
\* read past the end of the visible children is undefined: the process crashes, or
\* the call goes on with the lengths of the item whose address it has read; where
\* it has read no item's address, it crashes or returns with nothing moved.
RequestEqualSize ==
    \E c \in containers(T), read \in pastTheEnd(T) :
        \E separatorIndex \in 0..(Len(T[c].m_separators) - 1) :
            /\ ~faulted
            /\ opsLeft > 0
            /\ faulted' \in IF equalSizeReadsNoItem(T, c, separatorIndex, read) THEN BOOLEAN
                            ELSE equalSizeCrashes(T, c, separatorIndex, read)
            /\ T' = IF faulted' \/ equalSizeReadsNoItem(T, c, separatorIndex, read) THEN T
                    ELSE call("requestEqualSize", <<T, c, separatorIndex, read>>)
            /\ opsLeft' = opsLeft - 1
            /\ prev' = T
            /\ guests' = updateWidgetGeometries(T', guests)
            /\ UNCHANGED <<restored, before, resizes, timers, dropRect>>

NextSeparator ==
    \/ MoveSeparator
    \/ RequestEqualSize

SpecSeparator == InitSeparator /\ [][NextSeparator]_vars

(***************************************************************************)
(* A host that undoes its last operation: it inserts an item and removes   *)
(* it again, or hides a leaf and restores it.  `before` is the layout      *)
(* before the operation that is undone.                                    *)
(***************************************************************************)
MaxUndoOps == 2
UndoProfiles == {<< >>, <<SmallGuest>>, <<SmallGuest, SmallGuest>>,
                 <<LargeGuest, SmallGuest, SmallGuest>>}
UndoLayouts ==
    NestedLayouts(RootSizes)
        \cup {RowLayout(sz, loc, profiles, 0) :
                  sz \in RootSizes, loc \in {Location_OnRight, Location_OnBottom},
                  profiles \in UndoProfiles}

InitUndo ==
    /\ \E layout \in UndoLayouts : T = layout.tree /\ guests = updateWidgetGeometries(layout.tree, layout.widgets)
    /\ restored = NotRestored
    /\ opsLeft = MaxUndoOps
    /\ faulted = FALSE
    /\ prev = NoTree
    /\ before = NoTree
    /\ resizes = 0
    /\ timers = Cardinality(scheduled(T))
    /\ dropRect = NoDropRect

\* an operation of the host that it undoes next; the host has undone the one
\* before
NotedStep(tree, widgets) ==
    /\ ~faulted
    /\ opsLeft > 0
    /\ before = NoTree \/ prev # before
    /\ T' = tree
    /\ guests' = updateWidgetGeometries(tree, widgets)
    /\ opsLeft' = opsLeft - 1
    /\ prev' = T
    /\ before' = T
    /\ timers' = timers + singleShots(T, tree)
    /\ UNCHANGED <<restored, faulted, resizes, dropRect>>

\* the undoing operation
UndoStep(tree, widgets) ==
    /\ ~faulted
    /\ opsLeft > 0
    /\ before # NoTree
    /\ prev = before
    /\ T' = tree
    /\ guests' = updateWidgetGeometries(tree, widgets)
    /\ opsLeft' = opsLeft - 1
    /\ prev' = T
    /\ timers' = timers + singleShots(T, tree)
    /\ UNCHANGED <<restored, faulted, before, resizes, dropRect>>

\* root->insertItem(X, loc, mode) or leaf->insertItem(X, loc) with a new item X
InsertNoted ==
    \E relativeTo \in {Root} \cup leaves(T), loc \in Locations, profile \in GuestProfiles,
       mode \in InsertModes :
        LET w == Guest(newId(T), profile)
        IN /\ Cardinality(leaves(T)) < MaxLeaves + 1
           /\ relativeTo \in leaves(T) =>
                  isVisible(T, relativeTo, FALSE) /\ mode = DefaultSizeMode_Fair
           /\ NotedStep(IF relativeTo = Root
                        THEN call("ItemContainer_insertItem",
                                  <<call("createItem", <<T, w>>), relativeTo, w.id, loc, mode,
                                    FALSE>>)
                        ELSE call("Item_insertItem",
                                  <<call("createItem", <<T, w>>), relativeTo, w.id, loc, mode,
                                    FALSE>>),
                        guests @@ (w.id :> w))

\* the item that InsertNoted has added to `before`
insertedItem == newId(before)

\* root->removeItem(X, hardRemove=true) right after X has been inserted
RemoveInserted ==
    /\ before # NoTree
    /\ insertedItem \in DOMAIN T
    /\ UndoStep(call("removeItem", <<T, Root, insertedItem, TRUE>>),
                withoutGuest(guests, insertedItem))

\* root->removeItem(leaf, hardRemove=false) on a visible leaf whose container has
\* other visible children; the host keeps the widget
HideNoted ==
    \E item \in leaves(T) :
        /\ isVisible(T, item, FALSE)
        /\ numVisibleChildren(T, parentContainer(T, item)) > 1
        /\ NotedStep(call("removeItem", <<T, Root, item, FALSE>>), guests)

\* the leaf that HideNoted has hidden
hiddenItems == {n \in leaves(T) \cap DOMAIN before :
                    isVisible(before, n, FALSE) /\ ~isVisible(T, n, FALSE)}

\* leaf->restore(guest) right after the leaf has been hidden, with its widget
RestoreHidden ==
    /\ before # NoTree
    /\ DOMAIN T = DOMAIN before
    /\ \E item \in hiddenItems :
           UndoStep(call("restore", <<T, item, guests[item]>>), guests)

NextUndo ==
    \/ InsertNoted
    \/ RemoveInserted
    \/ HideNoted
    \/ RestoreHidden

SpecUndo == InitUndo /\ [][NextUndo]_vars

(***************************************************************************)
(* A host that hands the layout an item the layout already holds.          *)
(***************************************************************************)
MaxReinsertions == 1

InitReinsert ==
    /\ \E layout \in UndoLayouts : T = layout.tree /\ guests = updateWidgetGeometries(layout.tree, layout.widgets)
    /\ restored = NotRestored
    /\ opsLeft = MaxReinsertions
    /\ faulted = FALSE
    /\ prev = NoTree
    /\ before = NoTree
    /\ resizes = 0
    /\ timers = Cardinality(scheduled(T))
    /\ dropRect = NoDropRect

\* container->insertItem(item, loc) with an item of the tree; a container other
\* than the root is asked only for a location along its orientation
ReinsertItem ==
    \E c \in containers(T), item \in leaves(T), loc \in Locations :
        /\ c = Root \/ hasOrientationFor(T, c, loc)
        /\ Step(call("ItemContainer_insertItem", <<T, c, item, loc, DefaultSizeMode_Fair, FALSE>>),
                guests)

\* relativeTo->insertItem(item, loc) with another item of the tree, relativeTo a
\* visible leaf
ReinsertItemRelativeTo ==
    \E relativeTo \in leaves(T), item \in leaves(T), loc \in Locations :
        /\ item # relativeTo
        /\ isVisible(T, relativeTo, FALSE)
        /\ Step(call("Item_insertItem", <<T, relativeTo, item, loc, DefaultSizeMode_Fair, FALSE>>),
                guests)

NextReinsert ==
    \/ ReinsertItem
    \/ ReinsertItemRelativeTo

SpecReinsert == InitReinsert /\ [][NextReinsert]_vars

(***************************************************************************)
(* A host whose event loop runs the sanity checks the layout schedules.    *)
(***************************************************************************)
MaxSanityOps == 2

\* a new root with a first widget docked in it: root->insertItem(item,
\* Location_OnLeft), then left as it is or given a minimum size with
\* item->setMinSize(sz)
FirstDocked(profile) ==
    insertedInRow([tree |-> NewRoot, widgets |-> NoWidgets], Location_OnLeft, <<profile>>, 1)

SanityLayouts ==
    {FirstDocked(profile) : profile \in GuestProfiles}
        \cup {[tree |-> call("setMinSize", <<FirstDocked(profile).tree, 1, sz>>),
               widgets |-> FirstDocked(profile).widgets] :
                  profile \in GuestProfiles, sz \in MinSizes}

InitSanity ==
    /\ \E layout \in SanityLayouts : T = layout.tree /\ guests = updateWidgetGeometries(layout.tree, layout.widgets)
    /\ restored = NotRestored
    /\ opsLeft = MaxSanityOps
    /\ faulted = FALSE
    /\ prev = NoTree
    /\ before = NoTree
    /\ resizes = 0
    /\ timers = Cardinality(scheduled(T))
    /\ dropRect = NoDropRect

\* a timer of ItemContainer::scheduleCheckSanity fires: root->checkSanity()
RunCheckSanity ==
    /\ timers > 0
    /\ T' = call("checkSanity", <<T, Root, guests>>).tree
    /\ timers' = timers - 1
    /\ prev' = T
    /\ UNCHANGED <<guests, restored, opsLeft, faulted, before, resizes, dropRect>>

\* maximum sizes the host gives an item
MaxSizes == {QSize(400, 400), QSize(600, 300)}

\* item->setMaxSize(sz)
SetMaxSize ==
    \E item \in leaves(T), sz \in MaxSizes :
        Step(setMaxSize(T, item, sz), guests)

\* root->clear(): the host empties the layout.  The widgets that were the guests
\* of the deleted items are in no item any more.
Clear ==
    Step(clear(T, Root), NoWidgets)

NextSanity ==
    \/ SetSize
    \/ InsertItem
    \/ InsertItemRelativeTo
    \/ SetMinSize
    \/ SetMaxSize
    \/ Clear
    \/ RunCheckSanity

SpecSanity == InitSanity /\ [][NextSanity]_vars

(***************************************************************************)
(* Guests that are destroyed while the host holds references to their      *)
(* items.                                                                  *)
(***************************************************************************)
MaxGuestOps == 3
MaxRefCount == 2

InitGuest ==
    /\ \E layout \in UndoLayouts : T = layout.tree /\ guests = updateWidgetGeometries(layout.tree, layout.widgets)
    /\ restored = NotRestored
    /\ opsLeft = MaxGuestOps
    /\ faulted = FALSE
    /\ prev = NoTree
    /\ before = NoTree
    /\ resizes = 0
    /\ timers = Cardinality(scheduled(T))
    /\ dropRect = NoDropRect

\* item->ref()
Ref ==
    \E item \in leaves(T) :
        /\ T[item].m_refCount < MaxRefCount
        /\ Step(Item_ref(T, item), guests)

\* item->unref() on an item that is referenced
Unref ==
    \E item \in leaves(T) :
        /\ T[item].m_refCount > 0
        /\ Step(Item_unref(T, item),
                IF T[item].m_refCount = 1 THEN withoutGuest(guests, T[item].m_guest)
                ELSE guests)

\* the guest of a leaf is destroyed: QObject::destroyed reaches onWidgetDestroyed
DestroyGuest ==
    \E item \in leaves(T) :
        /\ T[item].m_guest # NoGuest
        /\ Step(onWidgetDestroyed(T, item), withoutGuest(guests, T[item].m_guest))

\* fresh->fillFromVariantMap(root->toVariantMap(), widgets) on a new root that
\* sits in another widget or in none.  Item::fillFromVariantMap gives each guest
\* it is passed the new host as its parent while the guest is still the guest of
\* the item that was serialised: that item's eventFilter sees the ParentChange
\* and turns the item into a placeholder.
DeserializeElsewhere ==
    \E widgets \in {guests, NoWidgets}, host \in {OtherWidget, NoHost} :
        /\ ~faulted
        /\ restored = NotRestored
        /\ restored' = [tree |-> call("fillFromVariantMap",
                                      <<(Root :> NewItemContainer(NoTree, host, NoItem)), Root,
                                        toVariantMap(T, Root), widgets>>),
                        widgets |-> widgets]
        /\ T' = IF widgets = NoWidgets THEN T
                ELSE eventFilter(T, SelectSeq(guestItems(T, Root),
                                              LAMBDA item : T[item].m_guest \in DOMAIN widgets),
                                 1, host)
        /\ guests' = updateWidgetGeometries(T', IF widgets = NoWidgets THEN guests ELSE NoWidgets)
        /\ prev' = T
        /\ timers' = timers + singleShots(T, T')
        /\ UNCHANGED <<opsLeft, faulted, before, resizes, dropRect>>

NextGuest ==
    \/ Ref
    \/ Unref
    \/ DestroyGuest
    \/ DeserializeElsewhere

SpecGuest == InitGuest /\ [][NextGuest]_vars

(***************************************************************************)
(* A host that asks where an item would go, and then drops it there.       *)
(* `dropRect` is the last query: the container asked, the arguments, the   *)
(* rectangle returned, the item as the query left it, and whether the item *)
(* has been dropped since.                                                 *)
(***************************************************************************)
MaxDropOps == 2
NoProfile == << >>
DropProfiles == GuestProfiles \cup {NoProfile}
DropRows == {<< >>, <<LargeGuest>>, <<SmallGuest, SmallGuest>>,
             <<SmallGuest, SmallGuest, SmallGuest>>}

\* the tree with the item the host is dragging, newId(tree): new Item(hostWidget)
\* alone, or with a guest set
withDraggedItem(tree, profile) ==
    IF profile = NoProfile THEN tree @@ (newId(tree) :> NewItem(tree, HostWidget, NoItem))
    ELSE call("createItem", <<tree, Guest(newId(tree), profile)>>)

\* the tree without the dragged item
withoutDraggedItem(tree, item) == Explicit([n \in DOMAIN tree \ {item} |-> tree[n]])

\* rows of leaves, one of them with a placeholder in the middle, and layouts with
\* a nested container
InitDrop ==
    /\ \/ \E sz \in RootSizes, loc \in {Location_OnRight, Location_OnBottom},
             profiles \in DropRows :
             \E hidden \in {0} \cup (IF Len(profiles) = 3 THEN {2} ELSE {}) :
                 \E layout \in {RowLayout(sz, loc, profiles, hidden)} :
                     T = layout.tree /\ guests = updateWidgetGeometries(layout.tree, layout.widgets)
       \/ \E loc \in {Location_OnLeft, Location_OnBottom} :
             \E layout \in {call("NestedLayout", <<QSize(1000, 600), loc, SmallGuest>>)} :
                 T = layout.tree /\ guests = updateWidgetGeometries(layout.tree, layout.widgets)
    /\ restored = NotRestored
    /\ opsLeft = MaxDropOps
    /\ faulted = FALSE
    /\ prev = NoTree
    /\ before = NoTree
    /\ resizes = 0
    /\ timers = Cardinality(scheduled(T))
    /\ dropRect = NoDropRect

\* c->suggestedDropRect(item, relativeTo, loc), with any leaf or no item as
\* relativeTo and any location, while the host drags an item over the layout
SuggestDropRect ==
    /\ ~faulted
    /\ opsLeft > 0
    /\ IF dropRect = NoDropRect THEN TRUE ELSE dropRect.dropped
    /\ \E c \in containers(T), relativeTo \in leaves(T) \cup {NoItem},
          loc \in Locations \cup {Location_None}, profile \in DropProfiles :
           \E result \in {call("suggestedDropRect",
                                <<withDraggedItem(T, profile), c, newId(T), relativeTo, loc>>)} :
               /\ T' = withoutDraggedItem(result.tree, newId(T))
               /\ dropRect' = [c |-> c, relativeTo |-> relativeTo, loc |-> loc,
                               profile |-> profile, rect |-> result.rect,
                               item |-> result.tree[newId(T)], dropped |-> FALSE]
    /\ opsLeft' = opsLeft - 1
    /\ prev' = T
    /\ timers' = timers + singleShots(T, T')
    /\ UNCHANGED <<guests, restored, faulted, before, resizes>>

\* the drop that follows a query: relativeTo->insertItem(item, loc, FairButFloor),
\* or root->insertItem(item, loc, FairButFloor) without relativeTo
DropItem ==
    /\ ~faulted
    /\ opsLeft > 0
    /\ dropRect # NoDropRect
    /\ ~dropRect.dropped
    /\ dropRect.loc # Location_None
    /\ dropRect.relativeTo # NoItem =>
           /\ parentContainer(T, dropRect.relativeTo) = dropRect.c
           /\ isVisible(T, dropRect.relativeTo, FALSE)
    /\ T' = IF dropRect.relativeTo # NoItem
            THEN call("Item_insertItem",
                      <<withDraggedItem(T, dropRect.profile), dropRect.relativeTo, newId(T),
                        dropRect.loc, DefaultSizeMode_FairButFloor, FALSE>>)
            ELSE call("ItemContainer_insertItem",
                      <<withDraggedItem(T, dropRect.profile), Root, newId(T), dropRect.loc,
                        DefaultSizeMode_FairButFloor, FALSE>>)
    /\ guests' = updateWidgetGeometries(T',
                     IF dropRect.profile = NoProfile THEN guests
                     ELSE guests @@ (newId(T) :> Guest(newId(T), dropRect.profile)))
    /\ dropRect' = [dropRect EXCEPT !.dropped = TRUE]
    /\ opsLeft' = opsLeft - 1
    /\ prev' = T
    /\ timers' = timers + singleShots(T, T')
    /\ UNCHANGED <<restored, faulted, before, resizes>>

NextDrop ==
    \/ SuggestDropRect
    \/ DropItem

SpecDrop == InitDrop /\ [][NextDrop]_vars

(***************************************************************************)
(* The root of a row of leaves resized along its orientation from one      *)
(* side, as a separator move resizes a container next to the separator.    *)
(***************************************************************************)
MaxSideResizes == 2
SideResizes == {-300, -100, 100, 300}
SideStrategies == {Side1SeparatorMove, Side2SeparatorMove}

InitSide ==
    /\ \E sz \in RootSizes, loc \in {Location_OnRight, Location_OnBottom},
          profiles \in RowProfiles :
          \E hidden \in 0..Len(profiles) :
              \E layout \in {RowLayout(sz, loc, profiles, hidden)} :
                  T = layout.tree /\ guests = updateWidgetGeometries(layout.tree, layout.widgets)
    /\ restored = NotRestored
    /\ opsLeft = MaxSideResizes
    /\ faulted = FALSE
    /\ prev = NoTree
    /\ before = NoTree
    /\ resizes = 0
    /\ timers = Cardinality(scheduled(T))
    /\ dropRect = NoDropRect

\* sz made longer by delta along o
lengthened(sz, o, delta) ==
    IF o = Vertical THEN QSize(sz.w, sz.h + delta) ELSE QSize(sz.w + delta, sz.h)

\* root->setSize_recursive(newSize, strategy) with a size that differs from the
\* root's along its orientation
ResizeFromSide ==
    \E delta \in SideResizes, strategy \in SideStrategies :
        /\ opsLeft > 0
        /\ containerLength(T, Root) + delta > 0
        /\ T' = call("setSize_recursive",
                     <<T, Root, lengthened(size(T, Root), T[Root].m_orientation, delta),
                       strategy>>)
        /\ opsLeft' = opsLeft - 1
        /\ prev' = T
        /\ guests' = updateWidgetGeometries(T', guests)
        /\ UNCHANGED <<restored, faulted, before, resizes, timers, dropRect>>

NextSide == ResizeFromSide

SpecSide == InitSide /\ [][NextSide]_vars

(***************************************************************************)
(* Separators dragged in a layout three containers deep.                   *)
(***************************************************************************)
InitDeep ==
    /\ \E sz \in RootSizes, loc \in {Location_OnTop, Location_OnBottom},
          deeper \in {Location_OnLeft, Location_OnRight}, profile \in GuestProfiles,
          flanked \in BOOLEAN :
          \E layout \in {call("DeepLayout", <<sz, loc, deeper, profile, flanked>>)} :
              T = layout.tree /\ guests = updateWidgetGeometries(layout.tree, layout.widgets)
    /\ restored = NotRestored
    /\ opsLeft = MaxSeparatorMoves
    /\ faulted = FALSE
    /\ prev = NoTree
    /\ before = NoTree
    /\ resizes = 0
    /\ timers = Cardinality(scheduled(T))
    /\ dropRect = NoDropRect

SpecDeep == InitDeep /\ [][NextSeparator]_vars

(***************************************************************************)
(* Properties of the layout.                                               *)
(***************************************************************************)
\* the visible children of c tile it along its orientation and span it across
tiles(tree, c) ==
    LET o == tree[c].m_orientation
        opposite == oppositeOrientation(o)
        children == call("visibleChildren", <<tree, c, FALSE>>)
    IN /\ children # << >> => pos(itemPos(tree, children[1]), o) = 0
       /\ \A i \in 1..(Len(children) - 1) :
              pos(itemPos(tree, children[i + 1]), o)
                  = pos(itemPos(tree, children[i]), o) + itemLength(tree, children[i], o)
                    + separatorThickness
       /\ \A i \in 1..Len(children) :
              /\ pos(itemPos(tree, children[i]), opposite) = 0
              /\ itemLength(tree, children[i], opposite) = oppositeLength(tree, c)

\* the sum of the lengths of the visible children of c along its orientation
occupied(tree, c) ==
    LET children == call("visibleChildren", <<tree, c, FALSE>>)
    IN SeqSum(Explicit([i \in 1..Len(children) |->
                           itemLength(tree, children[i], tree[c].m_orientation)]))

\* the visible leaves
visibleLeaves(tree) == {n \in leaves(tree) : isVisible(tree, n, FALSE)}

\* C1: after any sequence of public operations every visible leaf is at least as
\* wide as its minimum width and at least as high as its minimum height
C1_VisibleLeafHonoursMinSize ==
    \A n \in visibleLeaves(T) :
        /\ width(T, n) >= call("minSize", <<T, n>>).w
        /\ height(T, n) >= call("minSize", <<T, n>>).h

\* the last operation raised the minimum size of a visible leaf above the size the
\* leaf had, and the leaf has grown to it
C1_Witness ==
    /\ prev # NoTree
    /\ \E n \in visibleLeaves(T) :
           /\ n \in visibleLeaves(prev)
           /\ call("minSize", <<T, n>>).w > width(prev, n)
           /\ call("minSize", <<prev, n>>).w <= width(prev, n)
           /\ width(T, n) >= call("minSize", <<T, n>>).w

\* C2: after every public mutation the visible children of every container tile it
\* without gap or overlap: the first starts at 0 along the container's orientation,
\* each next one at the previous one's position + length + separatorThickness, and
\* across it every one starts at 0 and has the container's opposite length
C2_VisibleChildrenTile == \A c \in containers(T) : tiles(T, c)

\* C3: after every public mutation, in every container other than an empty root the
\* lengths of the visible children plus separatorThickness * (visible_count - 1)
\* add up to the container's length
C3_LengthsAddUp ==
    \A c \in containers(T) :
        ~(c = Root /\ isEmpty(T, c)) =>
            occupied(T, c) + separatorThickness * (numVisibleChildren(T, c) - 1)
                = containerLength(T, c)

\* C3, for the containers that have a visible child: the lengths of the visible
\* children and of the separators between them add up to the container's length
C3_VisibleLengthsAddUp ==
    \A c \in containers(T) :
        hasVisibleChildren(T, c, FALSE) =>
            occupied(T, c) + separatorThickness * (numVisibleChildren(T, c) - 1)
                = containerLength(T, c)

\* C4: when a removal, hard or soft, leaves a non-root container with children but
\* without a visible child, the container ends with an empty geometry and the
\* visible children of its parent tile and fill the parent
C4_ContainerWithoutVisibleChildIsSoftRemoved ==
    \A c \in containers(T) \ {Root} :
        (/\ prev # NoTree
         /\ c \in containers(prev)
         /\ hasVisibleChildren(prev, c, FALSE)
         /\ ~isEmpty(T, c)
         /\ ~hasVisibleChildren(T, c, FALSE))
        => LET p == parentContainer(T, c)
           IN /\ rectIsEmpty(T[c].m_sizingInfo.geometry)
              /\ tiles(T, p)
              /\ hasVisibleChildren(T, p, FALSE) =>
                     occupied(T, p) + separatorThickness * (numVisibleChildren(T, p) - 1)
                         = containerLength(T, p)

\* C5: after every public mutation every container with a host has exactly
\* max(0, visible_count - 1) separators, the i-th of them positioned, in root
\* coordinates, at the far edge + 1 of the container's i-th visible child
C5_SeparatorsFollowVisibleChildren ==
    \A c \in containers(T) :
        T[c].m_hostWidget # NoHost =>
            LET children == call("visibleChildren", <<T, c, FALSE>>)
            IN /\ Len(T[c].m_separators) = Max(0, Len(children) - 1)
               /\ \A i \in 1..Min(Len(T[c].m_separators), Len(children)) :
                      T[c].m_separators[i].position
                          = mapToRoot(T, c,
                                      si_edge(T[children[i]].m_sizingInfo,
                                              T[c].m_orientation) + 1,
                                      T[c].m_orientation)

\* C6: after any sequence of public operations no container but the root is
\* without children, and the root is still there
C6_NoEmptyNonRootContainer ==
    /\ Root \in containers(T)
    /\ \A c \in containers(T) \ {Root} : ~isEmpty(T, c)

\* the last operation hard-removed the last child of a non-root container: the
\* container is gone with it, and the root stays
C6_Witness ==
    /\ prev # NoTree
    /\ Root \in containers(T)
    /\ \E c \in containers(prev) \ {Root} :
           /\ c \notin DOMAIN T
           /\ Len(prev[c].m_children) = 1
           /\ prev[c].m_children[1] \in leaves(prev) \ DOMAIN T

\* the percentages of the visible children of c
percentagesOf(tree, c) ==
    LET children == call("visibleChildren", <<tree, c, FALSE>>)
    IN Explicit([i \in 1..Len(children) |->
                    tree[children[i]].m_sizingInfo.percentageWithinParent])

\* the percentage of item is its length over the usable length of its parent c
isShareOfUsableLength(tree, c, item) ==
    LET p == tree[item].m_sizingInfo.percentageWithinParent
    IN p.n * call("usableLength", <<tree, c>>) = itemLength(tree, item, tree[c].m_orientation) * p.d

\* C7: after every public mutation, in every container with visible children the
\* percentages of the visible children sum to 1, each is the child's length over
\* the usable length, and the hidden children have percentage 0
C7_PercentagesSumToOne ==
    \A c \in containers(T) :
        hasVisibleChildren(T, c, FALSE) =>
            /\ sumOfPercentages(percentagesOf(T, c), 1, [n |-> 0, d |-> 1]) = [n |-> 1, d |-> 1]
            /\ \A i \in 1..Len(T[c].m_children) :
                   LET item == T[c].m_children[i]
                   IN IF isVisible(T, item, FALSE)
                      THEN isShareOfUsableLength(T, c, item)
                      ELSE T[item].m_sizingInfo.percentageWithinParent.n = 0

\* C8: after any sequence of public operations the minimum size of every leaf is
\* at least hardcodedMinimumSize in both dimensions
C8_MinSizeAtLeastHardcodedMinimum ==
    \A n \in leaves(T) :
        /\ T[n].m_sizingInfo.minSize.w >= hardcodedMinimumSize.w
        /\ T[n].m_sizingInfo.minSize.h >= hardcodedMinimumSize.h

\* two percentages differ by no more than 1e-6
samePercentage(p, q) == Abs(p.n * q.d - q.n * p.d) <= (p.d * q.d) \div 1000000

\* the subtree of n in tree a and the subtree of m in tree b have the same shape,
\* orientations, child order, geometries, minimum and maximum sizes, visibility
\* and percentages
RECURSIVE structurallyEqual(_, _, _, _)
structurallyEqual(a, n, b, m) ==
    /\ a[n].isContainer = b[m].isContainer
    /\ a[n].m_sizingInfo.geometry = b[m].m_sizingInfo.geometry
    /\ call("minSize", <<a, n>>) = call("minSize", <<b, m>>)
    /\ a[n].m_sizingInfo.maxSize = b[m].m_sizingInfo.maxSize
    /\ isVisible(a, n, FALSE) = isVisible(b, m, FALSE)
    /\ samePercentage(a[n].m_sizingInfo.percentageWithinParent,
                      b[m].m_sizingInfo.percentageWithinParent)
    /\ a[n].isContainer =>
           /\ a[n].m_orientation = b[m].m_orientation
           /\ Len(a[n].m_children) = Len(b[m].m_children)
           /\ \A i \in 1..Len(a[n].m_children) :
                  structurallyEqual(a, a[n].m_children[i], b, b[m].m_children[i])

\* C9: a fresh root filled from the root's variant map, with the guests of the
\* tree, is structurally equal to the tree: same orientations, child order,
\* geometries, minimum and maximum sizes and visibility, and the recomputed
\* percentages are those of the tree
C9_RoundTripIsStructurallyEqual ==
    (restored.tree # NoTree /\ restored.widgets = guests)
        => structurallyEqual(T, Root, restored.tree, Root)

\* two lengths or coordinates differ by at most one pixel
withinOnePixel(a, b) == Abs(a - b) <= 1

\* C10: setSize_recursive(s0), setSize_recursive(s), setSize_recursive(s0) on the
\* root, s0 being the root's size and s no smaller than its minimum size, leaves
\* the geometry of every leaf within one pixel of what it was
C10_ResizeRoundTripWithinOnePixel ==
    resizes = 3 =>
        \A n \in leaves(T) :
            LET now == T[n].m_sizingInfo.geometry
                then == before[n].m_sizingInfo.geometry
            IN /\ withinOnePixel(now.x, then.x)
               /\ withinOnePixel(now.y, then.y)
               /\ withinOnePixel(now.w, then.w)
               /\ withinOnePixel(now.h, then.h)

\* the visible child next to separator separatorIndex (0-based) of c that a move
\* by delta shrinks can give up |delta| without going below its minimum length
absorbedByNeighbours(tree, c, separatorIndex, delta) ==
    LET children == call("visibleChildren", <<tree, c, FALSE>>)
        o == tree[c].m_orientation
        shrinking == IF delta > 0 THEN children[separatorIndex + 2]
                     ELSE children[separatorIndex + 1]
    IN /\ separatorIndex + 2 <= Len(children)
       /\ itemLength(tree, shrinking, o) - call("minLength", <<tree, shrinking, o>>)
              >= Abs(delta)

\* C11: a separator move that the two visible children next to the separator can
\* absorb leaves the size of every other visible child of the container as it
\* was, whether or not the container has hidden placeholders among its children
C11_SeparatorMoveLeavesOtherChildren ==
    prev # NoTree =>
        \A c \in containers(prev), delta \in SeparatorMoves :
            \A separatorIndex \in 0..(Len(prev[c].m_separators) - 1) :
                (/\ absorbedByNeighbours(prev, c, separatorIndex, delta)
                 /\ T = call("requestSeparatorMove", <<prev, c, separatorIndex, delta, NoItem>>))
                => LET children == call("visibleChildren", <<prev, c, FALSE>>)
                   IN \A k \in 1..Len(children) :
                          k \notin {separatorIndex + 1, separatorIndex + 2}
                              => size(T, children[k]) = size(prev, children[k])

\* the last operation undid the one before it
undone == before # NoTree /\ prev # NoTree /\ prev # before
\* x, y, width and height of a node in the root's coordinates
globalGeometry(tree, n) ==
    LET p == mapToRootPoint(tree, n, QPoint(0, 0))
    IN QRect(p.x, p.y, width(tree, n), height(tree, n))
rectWithinOnePixel(a, b) ==
    /\ withinOnePixel(a.x, b.x) /\ withinOnePixel(a.y, b.y)
    /\ withinOnePixel(a.w, b.w) /\ withinOnePixel(a.h, b.h)

\* C12: inserting an item X and then hard-removing it leaves every other node
\* within one pixel of the geometry it had before the insertion
C12_InsertThenRemoveWithinOnePixel ==
    (undone /\ insertedItem \in DOMAIN prev) =>
        \A n \in DOMAIN before :
            /\ n \in DOMAIN T
            /\ rectWithinOnePixel(globalGeometry(T, n), globalGeometry(before, n))

\* the leaves that were visible, have been hidden and are restored now
restoredItems ==
    {n \in DOMAIN before \cap DOMAIN prev \cap DOMAIN T :
         /\ ~before[n].isContainer
         /\ isVisible(before, n, FALSE)
         /\ ~isVisible(prev, n, FALSE)
         /\ isVisible(T, n, FALSE)}
\* the children of the leaf's container
siblingsAndSelf(tree, leaf) ==
    LET children == tree[parentContainer(tree, leaf)].m_children
    IN {children[i] : i \in 1..Len(children)}
\* the tree after another root->removeItem(leaf, false) and leaf->restore(guest)
hiddenAndRestored(tree, leaf) ==
    call("restore", <<call("removeItem", <<tree, Root, leaf, FALSE>>), leaf, guests[leaf]>>)

\* C13: hiding a visible leaf of a container with other visible children and then
\* restoring it gives the leaf and its siblings the geometries they had before
\* the hide, and hiding and restoring it once more gives the leaf the geometry
\* of the first restore
C13_HideThenRestoreReturnsGeometries ==
    undone =>
        \A leaf \in restoredItems :
            /\ \A n \in siblingsAndSelf(before, leaf) :
                   T[n].m_sizingInfo.geometry = before[n].m_sizingInfo.geometry
            /\ hiddenAndRestored(T, leaf)[leaf].m_sizingInfo.geometry
                   = T[leaf].m_sizingInfo.geometry
C13_Witness ==
    /\ undone
    /\ 2 \in restoredItems
    /\ before[Root].m_children = <<1, 2>>
    /\ prev[1].m_sizingInfo.geometry = QRect(0, 0, 1000, 600)
    /\ T[1].m_sizingInfo.geometry = QRect(0, 0, 498, 600)
    /\ T[2].m_sizingInfo.geometry = QRect(503, 0, 497, 600)

\* O(loc): Horizontal for Left and Right, Vertical for Top and Bottom
requiredOrientation(loc) ==
    IF loc \in {Location_OnLeft, Location_OnRight} THEN Horizontal ELSE Vertical
\* the last operation was c->insertItem(new item with this profile, loc, mode)
insertedInto(c, loc, profile, mode) ==
    /\ newId(prev) \in DOMAIN T
    /\ T = call("ItemContainer_insertItem",
                <<call("createItem", <<prev, Guest(newId(prev), profile)>>), c, newId(prev),
                  loc, mode, FALSE>>)

\* C14 as stated: an insertion at loc into a container with at most one child
\* makes the container adopt O(loc)
C14_AtMostOneChildAdoptsOrientation ==
    prev # NoTree =>
        \A c \in containers(prev) :
            Len(prev[c].m_children) <= 1 =>
                \A loc \in Locations, profile \in GuestProfiles, mode \in InsertModes :
                    insertedInto(c, loc, profile, mode)
                        => T[c].m_orientation = requiredOrientation(loc)

\* C14, with the empty container set apart: an insertion at loc into a container
\* with exactly one child makes the container adopt O(loc); an insertion into a
\* container without children leaves its orientation as it was, and the first
\* leaf of a root of 1000x600 becomes its only child, at (0,0,1000,600), with no
\* separator
C14_OneChildAdoptsOrientation ==
    prev # NoTree =>
        \A c \in containers(prev) :
            Len(prev[c].m_children) <= 1 =>
                \A loc \in Locations, profile \in GuestProfiles, mode \in InsertModes :
                    insertedInto(c, loc, profile, mode) =>
                        IF Len(prev[c].m_children) = 1
                        THEN T[c].m_orientation = requiredOrientation(loc)
                        ELSE /\ T[c].m_orientation = prev[c].m_orientation
                             /\ (c = Root /\ size(prev, Root) = QSize(1000, 600)) =>
                                    /\ T[Root].m_children = <<newId(prev)>>
                                    /\ T[newId(prev)].m_sizingInfo.geometry
                                           = QRect(0, 0, 1000, 600)
                                    /\ T[Root].m_separators = << >>
\* a root with one child, laid out vertically, has taken a second child on its
\* left or right and is horizontal
C14_Witness ==
    /\ prev # NoTree
    /\ Len(prev[Root].m_children) = 1
    /\ prev[Root].m_orientation = Vertical
    /\ \E loc \in {Location_OnLeft, Location_OnRight}, profile \in GuestProfiles,
          mode \in InsertModes : insertedInto(Root, loc, profile, mode)
    /\ Len(T[Root].m_children) = 2
    /\ T[Root].m_orientation = Horizontal

\* scenario S2: a root of 1000x600 whose only child l1, with minimum 80x90, filled
\* it, and root->insertItem(l2, Location_OnRight, DefaultSizeMode_Fair) with a new
\* leaf l2 of minimum 80x90 has just run
scenarioS2(l1, l2) ==
    /\ prev # NoTree
    /\ size(prev, Root) = QSize(1000, 600)
    /\ prev[Root].m_children = <<l1>>
    /\ ~prev[l1].isContainer
    /\ isVisible(prev, l1, FALSE)
    /\ prev[l1].m_sizingInfo.geometry = QRect(0, 0, 1000, 600)
    /\ prev[l1].m_sizingInfo.minSize = QSize(80, 90)
    /\ l2 = newId(prev)
    /\ \E profile \in GuestProfiles :
           /\ widgetMinSize(Guest(l2, profile)) = QSize(80, 90)
           /\ insertedInto(Root, Location_OnRight, profile, DefaultSizeMode_Fair)

\* C15 as stated: in scenario S2 the root ends with L1 at (0,0,497,600), one
\* separator at 497 and L2 at (502,0,498,600)
C15_FairInsertGivesNewLeafTheLargerHalf ==
    \A l1, l2 \in DOMAIN T :
        scenarioS2(l1, l2) =>
            /\ T[Root].m_children = <<l1, l2>>
            /\ T[l1].m_sizingInfo.geometry = QRect(0, 0, 497, 600)
            /\ Len(T[Root].m_separators) = 1
            /\ T[Root].m_separators[1].position = 497
            /\ T[l2].m_sizingInfo.geometry = QRect(502, 0, 498, 600)

\* C15, with the lengths the other way round: in scenario S2 the root ends with
\* L1 at (0,0,498,600), one separator at 498, separatorThickness wide, and L2 at
\* (503,0,497,600)
C15_FairInsertGivesNewLeafTheSmallerHalf ==
    \A l1, l2 \in DOMAIN T :
        scenarioS2(l1, l2) =>
            /\ T[Root].m_children = <<l1, l2>>
            /\ T[l1].m_sizingInfo.geometry = QRect(0, 0, 498, 600)
            /\ Len(T[Root].m_separators) = 1
            /\ T[Root].m_separators[1].position = 498
            /\ T[l2].m_sizingInfo.geometry.x - T[Root].m_separators[1].position
                   = separatorThickness
            /\ T[l2].m_sizingInfo.geometry = QRect(503, 0, 497, 600)
C15_Witness ==
    /\ scenarioS2(1, 2)
    /\ T[1].m_sizingInfo.geometry = QRect(0, 0, 498, 600)
    /\ T[2].m_sizingInfo.geometry = QRect(503, 0, 497, 600)

\* the container c of prev has exactly two visible children, both leaves, and the
\* last operation was c->requestSeparatorMove(its separator, delta) with the
\* new position inside the separator's bounds
twoLeavesMoved(c, delta) ==
    LET children == call("visibleChildren", <<prev, c, FALSE>>)
    IN /\ Len(children) = 2
       /\ ~prev[children[1]].isContainer /\ ~prev[children[2]].isContainer
       /\ Len(prev[c].m_separators) = 1
       /\ call("separatorMoveProceeds", <<prev, c, 0, delta, NoItem>>)
       /\ T = call("requestSeparatorMove", <<prev, c, 0, delta, NoItem>>)

\* C16: a separator move by delta inside the bounds, between the two visible
\* leaves of a container, adds delta to the length of the side-1 leaf, takes delta
\* from the length of the side-2 leaf, and shifts the side-2 leaf and the
\* separator by delta
C16_SeparatorMoveShiftsByDelta ==
    prev # NoTree =>
        \A c \in containers(prev), delta \in SeparatorMoves :
            twoLeavesMoved(c, delta) =>
                LET children == call("visibleChildren", <<prev, c, FALSE>>)
                    o == prev[c].m_orientation
                    side1 == children[1]
                    side2 == children[2]
                IN /\ itemLength(T, side1, o) = itemLength(prev, side1, o) + delta
                   /\ itemLength(T, side2, o) = itemLength(prev, side2, o) - delta
                   /\ pos(itemPos(T, side2), o) = pos(itemPos(prev, side2), o) + delta
                   /\ T[c].m_separators[1].position
                          = prev[c].m_separators[1].position + delta

\* the root of prev has exactly two visible children, both leaves, the one that
\* a move by delta shrinks cannot give up |delta|, and the last operation was
\* root->requestSeparatorMove(its separator, delta)
tooLargeMoveRequested(delta) ==
    LET children == call("visibleChildren", <<prev, Root, FALSE>>)
    IN /\ Len(children) = 2
       /\ ~prev[children[1]].isContainer /\ ~prev[children[2]].isContainer
       /\ Len(prev[Root].m_separators) = 1
       /\ ~absorbedByNeighbours(prev, Root, 0, delta)
       /\ T = call("requestSeparatorMove", <<prev, Root, 0, delta, NoItem>>)
\* the visible child of the root of prev that a move by delta shrinks
shrinkingChild(delta) ==
    LET children == call("visibleChildren", <<prev, Root, FALSE>>)
    IN IF delta > 0 THEN children[2] ELSE children[1]

\* C17 as stated: a separator move by more than the shrinking leaf can give is
\* applied in part, the leaf ending at its minimum length
C17_TooLargeMoveIsAppliedInPart ==
    prev # NoTree =>
        \A delta \in SeparatorMoves :
            tooLargeMoveRequested(delta) =>
                itemLength(T, shrinkingChild(delta), prev[Root].m_orientation)
                    = call("minLength", <<prev, shrinkingChild(delta), prev[Root].m_orientation>>)

\* C17, with the request rejected: a separator move by more than the shrinking
\* leaf can give changes nothing
C17_TooLargeMoveIsRejected ==
    prev # NoTree =>
        \A delta \in SeparatorMoves : tooLargeMoveRequested(delta) => T = prev
\* the two-leaf layout of 1000x600 after a request of -450
C17_Witness ==
    /\ prev # NoTree
    /\ tooLargeMoveRequested(-450)
    /\ size(prev, Root) = QSize(1000, 600)
    /\ prev[Root].m_children = <<1, 2>>
    /\ T[1].m_sizingInfo.geometry = QRect(0, 0, 498, 600)
    /\ T[2].m_sizingInfo.geometry = QRect(503, 0, 497, 600)
    /\ T[Root].m_separators[1].position = 498

\* the last operation was anchor->insertItem(new leaf with this profile, loc) on a
\* visible leaf whose parent holds at least two children and is laid out across loc
insertedOrthogonally(anchor, loc, profile) ==
    /\ prev # NoTree
    /\ newId(prev) \in DOMAIN T
    /\ anchor \in DOMAIN prev
    /\ ~prev[anchor].isContainer
    /\ isVisible(prev, anchor, FALSE)
    /\ Len(prev[parentContainer(prev, anchor)].m_children) >= 2
    /\ requiredOrientation(loc) # prev[parentContainer(prev, anchor)].m_orientation
    /\ T = call("Item_insertItem",
                <<call("createItem", <<prev, Guest(newId(prev), profile)>>), anchor,
                  newId(prev), loc, DefaultSizeMode_Fair, FALSE>>)
\* s with its element old replaced by new
replaced(s, old, new) == [i \in 1..Len(s) |-> IF s[i] = old THEN new ELSE s[i]]
\* the anchor has been replaced in its parent, at its index, by a new container
\* with the orientation of loc that holds the anchor and the new leaf in side
\* order, separatorThickness apart and filling the container's length
wrappedWithNewLeaf(anchor, loc) ==
    LET parent == parentContainer(prev, anchor)
        container == parentContainer(T, anchor)
        new == newId(prev)
        o == requiredOrientation(loc)
        first == T[container].m_children[1]
        second == T[container].m_children[2]
    IN /\ container \notin DOMAIN prev
       /\ T[container].isContainer
       /\ T[parent].m_children = replaced(prev[parent].m_children, anchor, container)
       /\ T[container].m_orientation = o
       /\ T[container].m_children
              = IF loc \in {Location_OnLeft, Location_OnTop} THEN <<new, anchor>>
                ELSE <<anchor, new>>
       /\ Len(T[container].m_separators) = 1
       /\ pos(itemPos(T, first), o) = 0
       /\ pos(itemPos(T, second), o) = itemLength(T, first, o) + separatorThickness
       /\ itemLength(T, first, o) + separatorThickness + itemLength(T, second, o)
              = itemLength(T, container, o)
\* the parent of the anchor keeps its orientation and its number of children
parentKept(anchor) ==
    LET parent == parentContainer(prev, anchor)
    IN /\ T[parent].m_orientation = prev[parent].m_orientation
       /\ Len(T[parent].m_children) = Len(prev[parent].m_children)
\* the container that holds the anchor now has exactly the geometry the anchor
\* had, and the other children of the anchor's parent keep their geometries
wrappedInPlace(anchor) ==
    LET parent == parentContainer(prev, anchor)
        container == parentContainer(T, anchor)
    IN /\ T[container].m_sizingInfo.geometry = prev[anchor].m_sizingInfo.geometry
       /\ \A i \in 1..Len(prev[parent].m_children) :
              LET n == prev[parent].m_children[i]
              IN n # anchor => T[n].m_sizingInfo.geometry = prev[n].m_sizingInfo.geometry

\* the new leaf's minimum size fits the anchor's geometry next to the anchor's
\* own minimum
newLeafFits(anchor, loc, profile) ==
    LET min == widgetMinSize(Guest(newId(prev), profile))
        o == requiredOrientation(loc)
        across == oppositeOrientation(o)
    IN /\ length(min, across) <= itemLength(prev, anchor, across)
       /\ length(min, o) + length(prev[anchor].m_sizingInfo.minSize, o) + separatorThickness
              <= itemLength(prev, anchor, o)
\* the container that holds the anchor now is larger than the anchor was, and
\* has room for the minimum sizes of the new leaf and of the anchor
wrappedAndGrown(anchor, loc, profile) ==
    LET container == parentContainer(T, anchor)
        min == widgetMinSize(Guest(newId(prev), profile))
        o == requiredOrientation(loc)
        across == oppositeOrientation(o)
    IN /\ itemLength(T, container, across) >= length(min, across)
       /\ itemLength(T, container, o)
              >= length(min, o) + length(prev[anchor].m_sizingInfo.minSize, o) + separatorThickness
       /\ \/ itemLength(T, container, across) > itemLength(prev, anchor, across)
          \/ itemLength(T, container, o) > itemLength(prev, anchor, o)

\* C18: leaf->insertItem(new, loc) across the orientation of the leaf's parent, the
\* parent holding two children or more, puts a new container of orientation
\* O(loc) in the leaf's place, with the leaf's geometry, holding the leaf and the
\* new leaf in side order separatorThickness apart, and leaves the parent's
\* orientation, child count and other children's geometries unchanged
C18_OrthogonalInsertWrapsAnchor ==
    \A anchor \in DOMAIN T, loc \in Locations, profile \in GuestProfiles :
        insertedOrthogonally(anchor, loc, profile) =>
            wrappedWithNewLeaf(anchor, loc) /\ parentKept(anchor) /\ wrappedInPlace(anchor)

\* C18, with the geometry for a new leaf that fits: the insertion across the
\* parent's orientation always puts a new container of orientation O(loc) in
\* the anchor's place, holding the anchor and the new leaf in side order
\* separatorThickness apart, and keeps the parent's orientation and child
\* count.  When the new leaf's minimum size fits the anchor's geometry next to
\* the anchor's minimum, the container has the anchor's geometry and the
\* parent's other children are as they were; when it does not, the container
\* is larger than the anchor was and has room for both minimum sizes.
C18_OrthogonalInsertWrapsAnchorInPlaceIfItFits ==
    \A anchor \in DOMAIN T, loc \in Locations, profile \in GuestProfiles :
        insertedOrthogonally(anchor, loc, profile) =>
            /\ wrappedWithNewLeaf(anchor, loc)
            /\ parentKept(anchor)
            /\ IF newLeafFits(anchor, loc, profile) THEN wrappedInPlace(anchor)
               ELSE wrappedAndGrown(anchor, loc, profile)
\* scenario S3: a third leaf below the second leaf of the two-leaf row of 1000x600
C18_Witness ==
    /\ insertedOrthogonally(2, Location_OnBottom, SmallGuest)
    /\ newLeafFits(2, Location_OnBottom, SmallGuest)
    /\ prev[Root].m_children = <<1, 2>>
    /\ prev[2].m_sizingInfo.geometry = QRect(503, 0, 497, 600)
    /\ T[Root].m_children = <<1, 4>>
    /\ T[4].m_sizingInfo.geometry = QRect(503, 0, 497, 600)
    /\ T[4].m_children = <<2, 3>>
    /\ T[4].m_orientation = Vertical

\* the last operation was root->removeItem(item, hardRemove) on a visible leaf
\* whose container has other visible children
removedFromAmongOthers(item, hardRemove) ==
    /\ prev # NoTree
    /\ item \in DOMAIN prev
    /\ ~prev[item].isContainer
    /\ isVisible(prev, item, FALSE)
    /\ numVisibleChildren(prev, parentContainer(prev, item)) >= 2
    /\ T = call("removeItem", <<prev, Root, item, hardRemove>>)
\* what the visible child n of c has gained in length along c's orientation
gained(c, n) == itemLength(T, n, prev[c].m_orientation)
                    - itemLength(prev, n, prev[c].m_orientation)

\* C19: the removal, hard or soft, of a visible child from a container that keeps
\* other visible children changes the length of the nearest visible sibling on
\* each side only: two of them split the child's length plus separatorThickness
\* half and half, a single one takes all of it; of two leaves the one that stays
\* fills the container, which has no separator left
C19_RemovalGrowsNearestSiblings ==
    \A item \in DOMAIN T \cup DOMAIN prev, hardRemove \in BOOLEAN :
        removedFromAmongOthers(item, hardRemove) =>
            LET c == parentContainer(prev, item)
                o == prev[c].m_orientation
                children == call("visibleChildren", <<prev, c, FALSE>>)
                k == CHOOSE i \in 1..Len(children) : children[i] = item
                freed == itemLength(prev, item, o) + separatorThickness
            IN /\ \A j \in 1..Len(children) :
                      j \notin {k - 1, k, k + 1} => gained(c, children[j]) = 0
               /\ (1 < k /\ k < Len(children)) =>
                      /\ gained(c, children[k - 1]) + gained(c, children[k + 1]) = freed
                      /\ withinOnePixel(gained(c, children[k - 1]),
                                        gained(c, children[k + 1]))
               /\ (k = 1) => gained(c, children[2]) = freed
               /\ (k = Len(children)) => gained(c, children[k - 1]) = freed
               /\ Len(children) = 2 =>
                      LET other == children[3 - k]
                      IN /\ T[c].m_separators = << >>
                         /\ T[other].m_sizingInfo.geometry = rect(T, c)

\* the last operation was root->setSize_recursive(sz) with sz narrower or lower
\* than the root's minimum size
tooSmallSizeSet(sz) ==
    /\ prev # NoTree
    /\ \/ sz.w < call("minSize", <<prev, Root>>).w
       \/ sz.h < call("minSize", <<prev, Root>>).h
    /\ T = call("setSize_recursive", <<prev, Root, sz, Percentage>>)

\* C20: setSize_recursive with a size smaller than the container's minimum size in
\* width or in height changes nothing: the geometries of the container and of its
\* descendants, the percentages and m_blockUpdatePercentages are as before
C20_TooSmallSizeChangesNothing ==
    \A sz \in RootSizes :
        tooSmallSizeSet(sz) =>
            /\ \A n \in DOMAIN prev :
                   /\ n \in DOMAIN T
                   /\ T[n].m_sizingInfo.geometry = prev[n].m_sizingInfo.geometry
                   /\ T[n].m_sizingInfo.percentageWithinParent
                          = prev[n].m_sizingInfo.percentageWithinParent
                   /\ T[n].m_blockUpdatePercentages = prev[n].m_blockUpdatePercentages
            /\ T = prev
\* a root with two children has been asked to become narrower than its minimum
C20_Witness ==
    \E sz \in RootSizes :
        /\ tooSmallSizeSet(sz)
        /\ sz # size(prev, Root)
        /\ sz.w < call("minSize", <<prev, Root>>).w
        /\ numVisibleChildren(prev, Root) = 2
        /\ size(T, Root) = size(prev, Root)

(***************************************************************************)
(* C21.  insertItem with an item that is already in the tree               *)
(***************************************************************************)
\* the two trees have the same nodes, each with the same parent, children,
\* visibility and geometry
sameStructureAndGeometries(a, b) ==
    /\ DOMAIN a = DOMAIN b
    /\ \A n \in DOMAIN a :
          /\ a[n].m_parent = b[n].m_parent
          /\ a[n].m_children = b[n].m_children
          /\ a[n].m_isVisible = b[n].m_isVisible
          /\ a[n].m_sizingInfo.geometry = b[n].m_sizingInfo.geometry

\* the last call was insertItem, in either form, with an item of the tree
reinserted ==
    /\ prev # NoTree
    /\ \E item \in leaves(prev), loc \in Locations :
          \/ \E c \in containers(prev) :
                /\ c = Root \/ hasOrientationFor(prev, c, loc)
                /\ T = call("ItemContainer_insertItem",
                            <<prev, c, item, loc, DefaultSizeMode_Fair, FALSE>>)
          \/ \E relativeTo \in leaves(prev) \ {item} :
                /\ isVisible(prev, relativeTo, FALSE)
                /\ T = call("Item_insertItem",
                            <<prev, relativeTo, item, loc, DefaultSizeMode_Fair, FALSE>>)

\* C21: insertItem, on a container or relative to a leaf, with an item that is
\* already in the tree leaves the structure, the visibility and every geometry
\* of the tree as they were.
C21_InsertingAnItemOfTheTreeChangesNothing ==
    reinserted => sameStructureAndGeometries(T, prev)

(***************************************************************************)
(* C22.  checkSanity leaves the layout as it is                            *)
(***************************************************************************)
\* the structure, geometries, percentages and separators of a tree
layoutOf(tree) ==
    [n \in DOMAIN tree |->
        [isContainer |-> tree[n].isContainer,
         m_parent |-> tree[n].m_parent,
         m_children |-> tree[n].m_children,
         m_orientation |-> tree[n].m_orientation,
         m_isVisible |-> tree[n].m_isVisible,
         geometry |-> tree[n].m_sizingInfo.geometry,
         percentageWithinParent |-> tree[n].m_sizingInfo.percentageWithinParent,
         m_separators |-> tree[n].m_separators]]

\* the guest widgets are as the items of this tree left them
guestsAsLeftBy(tree) ==
    /\ \A n \in DOMAIN tree :
           (~tree[n].isContainer /\ tree[n].m_guest # NoGuest) => tree[n].m_guest \in DOMAIN guests
    /\ guests = updateWidgetGeometries(tree, guests)

\* the last step was root->checkSanity()
ranCheckSanity ==
    /\ prev # NoTree
    /\ guestsAsLeftBy(prev)
    /\ T = call("checkSanity", <<prev, Root, guests>>).tree

\* C22: checkSanity never changes the layout: whatever the tree, valid or not, and
\* whatever it returns, the separators, percentages, geometries and structure
\* are after the call what they were before it.
C22_CheckSanityNeverMutates == ranCheckSanity => layoutOf(T) = layoutOf(prev)

(***************************************************************************)
(* C23.  One deferred sanity check at a time                               *)
(***************************************************************************)
\* C23: whatever insertions the host makes, on the root or on nested containers,
\* at most one checkSanity is pending on the timer, and no container has its
\* m_checkSanityScheduled set while no check is pending, so that the insertion
\* after a check schedules a new one.
C23_AtMostOneCheckPending ==
    /\ timers <= 1
    /\ scheduled(T) # {} => timers > 0

(***************************************************************************)
(* C24.  The guest of a leaf is destroyed                                  *)
(***************************************************************************)
\* the last operation was the destruction of the guest of this leaf
guestDestroyed(item) ==
    /\ prev # NoTree
    /\ item \in leaves(prev)
    /\ prev[item].m_guest # NoGuest
    /\ T = onWidgetDestroyed(prev, item)
\* the leaf is hidden without a guest, where it was among its parent's children,
\* and the visible children of every container that has some tile it
isPlaceholderInPlace(item) ==
    LET c == parentContainer(prev, item)
    IN /\ item \in DOMAIN T
       /\ ~T[item].m_isVisible
       /\ T[item].m_guest = NoGuest
       /\ T[item].m_parent = c
       /\ T[c].m_children = prev[c].m_children
       /\ \A n \in containers(T) : hasVisibleChildren(T, n, FALSE) => tiles(T, n)
\* the leaf is no node of the tree and no child of a node
isHardRemoved(item) ==
    /\ item \notin DOMAIN T
    /\ \A n \in DOMAIN T : \A i \in 1..Len(T[n].m_children) : T[n].m_children[i] # item

\* C24: when the guest of a leaf is destroyed, a leaf with m_refCount > 0 becomes a
\* placeholder (hidden, at its index in its parent, its space taken by the visible
\* items that remain), and a leaf with m_refCount = 0 is removed from the tree
C24_DestroyedGuestLeavesPlaceholderOrNothing ==
    \A item \in leaves(prev) :
        guestDestroyed(item) =>
            IF prev[item].m_refCount > 0 THEN isPlaceholderInPlace(item)
            ELSE isHardRemoved(item)
\* the guest of the referenced middle leaf of three has been destroyed, and its
\* neighbours have grown
C24_Witness ==
    /\ guestDestroyed(2)
    /\ prev[2].m_refCount > 0
    /\ prev[Root].m_children = <<1, 2, 3>>
    /\ T[Root].m_children = <<1, 2, 3>>
    /\ ~T[2].m_isVisible
    /\ itemLength(T, 1, T[Root].m_orientation) > itemLength(prev, 1, T[Root].m_orientation)
    /\ itemLength(T, 3, T[Root].m_orientation) > itemLength(prev, 3, T[Root].m_orientation)

(***************************************************************************)
(* C25.  Guests that are not found when the layout is restored             *)
(***************************************************************************)
\* in the subtree of m in tree b, filled from the variant map of the subtree of n
\* in tree a, every leaf whose serialized guestId is not among the widgets has
\* no guest and is not visible
RECURSIVE unresolvedArePlaceholders(_, _, _, _, _)
unresolvedArePlaceholders(a, n, b, m, widgets) ==
    IF a[n].isContainer
    THEN \A i \in 1..Len(a[n].m_children) :
             i <= Len(b[m].m_children) =>
                 unresolvedArePlaceholders(a, a[n].m_children[i], b, b[m].m_children[i], widgets)
    ELSE (a[n].m_guest # NoGuest /\ a[n].m_guest \notin DOMAIN widgets) =>
             /\ b[m].m_guest = NoGuest
             /\ ~b[m].m_isVisible

\* C25: after fillFromVariantMap every leaf whose serialized guestId is not found in
\* the widgets handed in is a placeholder: it has no guest and is not visible,
\* whatever isVisible was serialized
C25_UnresolvedGuestLeavesPlaceholder ==
    restored.tree # NoTree =>
        unresolvedArePlaceholders(T, Root, restored.tree, Root, restored.widgets)

(***************************************************************************)
(* C26.  suggestedDropRect is a query                                      *)
(***************************************************************************)
\* the last operation was a suggestedDropRect
queried == dropRect # NoDropRect /\ ~dropRect.dropped
\* the item the host handed to the last suggestedDropRect, as it was before
draggedItem == withDraggedItem(prev, dropRect.profile)[newId(prev)]

\* C26: suggestedDropRect, whatever its arguments and the path it takes (a warning
\* and no rectangle, the fallback, the insertion in the copy), leaves the tree as
\* it was (structure, geometries, minimum sizes, percentages, separators) and
\* leaves the item it was handed as it was
C26_SuggestedDropRectChangesNothing ==
    queried => (T = prev /\ dropRect.item = draggedItem)
\* a query beside the second leaf of a row of two in the 1000x600 root, answered
\* from the copy of the layout
C26_Witness ==
    /\ queried
    /\ prev[Root].m_children = <<1, 2>>
    /\ size(prev, Root) = QSize(1000, 600)
    /\ dropRect.c = Root
    /\ dropRect.relativeTo = 2
    /\ dropRect.loc = Location_OnBottom
    /\ dropRect.profile = LargeGuest
    /\ ~windowNeedsGrowing(withDraggedItem(prev, dropRect.profile), newId(prev), dropRect.loc)
    /\ dropRect.rect = QRect(503, 350, 497, 250)

(***************************************************************************)
(* C27.  The rectangle suggested is the rectangle the drop gives           *)
(***************************************************************************)
\* the last operation was the drop that follows a query of a rectangle
droppedAfterQuery == dropRect # NoDropRect /\ dropRect.dropped
\* the root had the room for the item that was dropped
hadRoomForDrop ==
    ~windowNeedsGrowing(withDraggedItem(prev, dropRect.profile), newId(prev), dropRect.loc)

\* C27: when the root has the room for the item (windowNeedsGrowing is false), the
\* rectangle suggestedDropRect(item, relativeTo, loc) returned is the geometry,
\* mapped to the root, that the item has after relativeTo->insertItem(item, loc,
\* FairButFloor), or root->insertItem(item, loc, FairButFloor) without relativeTo
C27_SuggestedRectIsTheDropGeometry ==
    (droppedAfterQuery /\ hadRoomForDrop) =>
        dropRect.rect = mapToRootRect(T, newId(prev), rect(T, newId(prev)))
\* the item dropped below the second leaf of a row of two has, in the new
\* container that holds the two, the rectangle that was suggested
C27_Witness ==
    /\ droppedAfterQuery
    /\ hadRoomForDrop
    /\ prev[Root].m_children = <<1, 2>>
    /\ dropRect.relativeTo = 2
    /\ dropRect.loc = Location_OnBottom
    /\ dropRect.profile = LargeGuest
    /\ dropRect.rect = QRect(503, 350, 497, 250)
    /\ parentContainer(T, 3) # Root
    /\ parentContainer(T, 3) = parentContainer(T, 2)
    /\ T[3].m_sizingInfo.geometry = QRect(0, 350, 497, 250)

(***************************************************************************)
(* C28.  The rectangles suggested beside a visible leaf                    *)
(***************************************************************************)
\* the last operation was the query, on the parent of a visible leaf, of the
\* rectangle of a new item beside that leaf
queriedBesideVisibleLeaf ==
    /\ queried
    /\ dropRect.profile = NoProfile
    /\ dropRect.loc # Location_None
    /\ dropRect.relativeTo \in visibleLeaves(prev)
    /\ dropRect.c = parentContainer(prev, dropRect.relativeTo)
\* what the same query returns for the location loc
suggestedAt(loc) ==
    call("suggestedDropRect", <<withDraggedItem(prev, NoProfile), dropRect.c, newId(prev),
                                dropRect.relativeTo, loc>>).rect

\* C28: for a visible leaf relativeTo and each of the four locations, the
\* rectangle that relativeTo's parent suggests for a new item is not empty and
\* lies within the root's rectangle; the one at the bottom starts below the one
\* at the top, and the one on the right starts right of the one on the left
C28_SuggestedRectsAreWithinTheRoot ==
    queriedBesideVisibleLeaf =>
        /\ dropRect.rect = suggestedAt(dropRect.loc)
        /\ ~rectIsEmpty(dropRect.rect)
        /\ rectContains(rect(prev, Root), dropRect.rect)
        /\ suggestedAt(Location_OnBottom).y > suggestedAt(Location_OnTop).y
        /\ suggestedAt(Location_OnRight).x > suggestedAt(Location_OnLeft).x
\* the rectangles suggested above and below the second leaf of a row of two in
\* the 1000x600 root, for a new item without guest
C28_Witness ==
    /\ queriedBesideVisibleLeaf
    /\ prev[Root].m_children = <<1, 2>>
    /\ prev[2].m_sizingInfo.geometry = QRect(503, 0, 497, 600)
    /\ dropRect.relativeTo = 2
    /\ dropRect.loc = Location_OnTop
    /\ dropRect.rect = QRect(503, 0, 497, 90)
    /\ suggestedAt(Location_OnBottom) = QRect(503, 510, 497, 90)

(***************************************************************************)
(* C29.  The order of the steps of setMinSize                              *)
(***************************************************************************)
\* the last operation was n->setMinSize(sz)
minSizeSet(n, sz) ==
    /\ prev # NoTree
    /\ n \in leaves(prev)
    /\ T = call("setMinSize", <<prev, n, sz>>)
\* the tree with the new minimum size of n stored
minSizeStored(tree, n, sz) == [tree EXCEPT ![n].m_sizingInfo.minSize = sz]
\* the parent of n is told, in the tree given, that the minimum size has changed
parentNotified(tree, n) == call("emit_minSizeChanged", <<tree, n>>)
\* n takes the size max(size, sz) in the tree given
ownSizeEnlarged(tree, n, sz) ==
    call("setSize_recursive", <<tree, n, sizeExpandedTo(size(tree, n), sz), Percentage>>)

\* C29: setMinSize(sz) with a value other than the current minimum size stores it,
\* enlarges the item's own size to max(size, sz) and only then notifies the
\* parent; with the current value it notifies nobody and changes no geometry
C29_SetMinSizeEnlargesThenNotifies ==
    \A n \in leaves(prev), sz \in MinSizes :
        minSizeSet(n, sz) =>
            IF sz = prev[n].m_sizingInfo.minSize THEN T = prev
            ELSE T = parentNotified(ownSizeEnlarged(minSizeStored(prev, n, sz), n, sz), n)

\* C29, as the code has it: setMinSize(sz) with a value other than the current
\* minimum size stores it, notifies the parent, which makes room for the item,
\* and only then enlarges the item's own size to max(size, sz); with the current
\* value it notifies nobody and changes nothing
C29_SetMinSizeNotifiesThenEnlarges ==
    \A n \in leaves(prev), sz \in MinSizes :
        minSizeSet(n, sz) =>
            IF sz = prev[n].m_sizingInfo.minSize THEN T = prev
            ELSE T = ownSizeEnlarged(parentNotified(minSizeStored(prev, n, sz), n), n, sz)
\* the first of two leaves in the 500 wide root has been given the minimum width
\* 400: its parent has made room for it and the second leaf starts after it,
\* where enlarging the first leaf before the notification leaves the second at 253
C29_Witness ==
    /\ minSizeSet(1, QSize(400, 120))
    /\ prev[Root].m_children = <<1, 2>>
    /\ prev[1].m_sizingInfo.geometry = QRect(0, 0, 248, 700)
    /\ prev[2].m_sizingInfo.geometry = QRect(253, 0, 247, 700)
    /\ T[1].m_sizingInfo.geometry = QRect(0, 0, 400, 700)
    /\ T[2].m_sizingInfo.geometry = QRect(405, 0, 95, 700)
    /\ setMinSize_NotifyingLast(prev, 1, QSize(400, 120))[2].m_sizingInfo.geometry
           = QRect(253, 0, 247, 700)

(***************************************************************************)
(* C30.  Where an insertion along the orientation puts the item            *)
(***************************************************************************)
\* the last operation was c->insertItem(new item, loc, mode) on a container that
\* has the orientation for loc
insertedAlong(c, loc, profile, mode) ==
    /\ prev # NoTree
    /\ c \in containers(prev)
    /\ hasOrientationFor(prev, c, loc)
    /\ insertedInto(c, loc, profile, mode)
\* the last operation was anchor->insertItem(new item, loc) on a visible leaf
\* whose parent has the orientation for loc
insertedBeside(anchor, loc, profile) ==
    /\ prev # NoTree
    /\ anchor \in visibleLeaves(prev)
    /\ hasOrientationFor(prev, parentContainer(prev, anchor), loc)
    /\ T = call("Item_insertItem",
                <<call("createItem", <<prev, Guest(newId(prev), profile)>>), anchor,
                  newId(prev), loc, DefaultSizeMode_Fair, FALSE>>)
\* the sequence s with e put right before or right after its element anchor
putBeside(s, anchor, e, isBefore) ==
    LET k == CHOOSE i \in 1..Len(s) : s[i] = anchor
    IN SubSeq(s, 1, k - 1) \o (IF isBefore THEN <<e, anchor>> ELSE <<anchor, e>>)
           \o SubSeq(s, k + 1, Len(s))

\* C30: when the container has the orientation of loc, container->insertItem(item,
\* loc) puts the item first among the children for Left and Top and last for Right
\* and Bottom, and leaf->insertItem(item, loc) puts it among the children of the
\* leaf's parent right before the leaf for Left and Top and right after it for
\* Right and Bottom; the children there were keep their order
C30_InsertionAlongOrientationKeepsOrder ==
    /\ \A c \in containers(T), loc \in Locations, profile \in GuestProfiles, mode \in InsertModes :
           insertedAlong(c, loc, profile, mode) =>
               T[c].m_children
                   = IF loc \in {Location_OnLeft, Location_OnTop}
                     THEN <<newId(prev)>> \o prev[c].m_children
                     ELSE prev[c].m_children \o <<newId(prev)>>
    /\ \A anchor \in leaves(T), loc \in Locations, profile \in GuestProfiles :
           insertedBeside(anchor, loc, profile) =>
               T[parentContainer(prev, anchor)].m_children
                   = putBeside(prev[parentContainer(prev, anchor)].m_children, anchor,
                               newId(prev), loc \in {Location_OnLeft, Location_OnTop})
\* a new leaf inserted on the left of the second of three leaves in a row
C30_Witness ==
    /\ insertedBeside(2, Location_OnLeft, SmallGuest)
    /\ prev[Root].m_children = <<1, 2, 3>>
    /\ prev[Root].m_orientation = Horizontal
    /\ T[Root].m_children = <<1, 4, 2, 3>>

\* the last operation was root->insertItem(new item with this profile, loc, mode)
\* on a root that holds at least two children and is laid out across loc
insertedAcrossRoot(loc, profile, mode) ==
    /\ prev # NoTree
    /\ Len(prev[Root].m_children) >= 2
    /\ requiredOrientation(loc) # prev[Root].m_orientation
    /\ insertedInto(Root, loc, profile, mode)
\* the containers that the last operation has created
createdContainers == {n \in DOMAIN T \ DOMAIN prev : T[n].isContainer}
\* the visible children of c tile it and their lengths add up to its length
tiledAndFilled(tree, c) ==
    /\ tiles(tree, c)
    /\ hasVisibleChildren(tree, c, FALSE) =>
           occupied(tree, c) + separatorThickness * (numVisibleChildren(tree, c) - 1)
               = containerLength(tree, c)
\* C31: root->insertItem(item, loc) with loc across the orientation of a root that
\* holds at least two children leaves the root with exactly two children, the
\* item on the side named by loc and a new container that holds the former
\* children in their former order with the former orientation; the root has the
\* opposite orientation, and the visible children tile and fill the root and the
\* new container
C31_OrthogonalRootInsertionWrapsChildren ==
    \A loc \in Locations, profile \in GuestProfiles, mode \in InsertModes :
        insertedAcrossRoot(loc, profile, mode) =>
            \E container \in createdContainers :
                /\ createdContainers = {container}
                /\ T[Root].m_children
                       = IF loc \in {Location_OnLeft, Location_OnTop}
                         THEN <<newId(prev), container>>
                         ELSE <<container, newId(prev)>>
                /\ T[container].m_children = prev[Root].m_children
                /\ T[container].m_orientation = prev[Root].m_orientation
                /\ \A i \in 1..Len(prev[Root].m_children) :
                       T[prev[Root].m_children[i]].m_parent = container
                /\ T[Root].m_orientation = oppositeOrientation(prev[Root].m_orientation)
                /\ T[Root].m_orientation = requiredOrientation(loc)
                /\ tiledAndFilled(T, Root)
                /\ tiledAndFilled(T, container)

\* the modes of an insertion that C32 is about
DefaultSizeModes ==
    {DefaultSizeMode_None, DefaultSizeMode_Fair, DefaultSizeMode_FairButFloor,
     DefaultSizeMode_ItemSize}
\* the length that C32 gives an item of length `current` and minimum length
\* `minimum` in a container of length L with n visible children
defaultLengthOfSpec(mode, L, n, current, minimum) ==
    LET fair == (L - separatorThickness * n) \div (n + 1)
    IN CASE mode = DefaultSizeMode_Fair -> Max(minimum, fair)
         [] mode = DefaultSizeMode_FairButFloor -> Max(minimum, Min(fair, current))
         [] mode = DefaultSizeMode_ItemSize -> Max(minimum, current)
         [] mode = DefaultSizeMode_None -> current
\* C32: the length that insertItem(item, index, mode) gives a new item before it
\* puts it in a container of length L with n visible children is (L -
\* separatorThickness * n) / (n + 1) rounded down with Fair, the smaller of that
\* and the item's own length with FairButFloor, the item's own length with
\* ItemSize, each raised to the item's minimum length along the container's
\* orientation; with None the item keeps its length
C32_DefaultLengthFollowsTheMode ==
    \A c \in containers(T), profile \in GuestProfiles, mode \in DefaultSizeModes :
        \E created \in {call("createItem", <<T, Guest(newId(T), profile)>>)} :
            \E sized \in {setSuggestedLength(created, c, newId(T), mode)} :
                itemLength(sized, newId(T), T[c].m_orientation)
                    = defaultLengthOfSpec(mode, containerLength(T, c),
                                          numVisibleChildren(T, c),
                                          itemLength(created, newId(T), T[c].m_orientation),
                                          call("minLength",
                                               <<created, newId(T), T[c].m_orientation>>))

\* a root of 500x700 with two visible leaves in a row has taken a third leaf of
\* minimum width 300 on its right with Fair: the fair share (500 - 10) / 3 = 163
\* is below the minimum, and the leaf is 300 wide
C32_Witness ==
    /\ prev # NoTree
    /\ numVisibleChildren(prev, Root) = 2
    /\ prev[Root].m_orientation = Horizontal
    /\ size(prev, Root) = QSize(500, 700)
    /\ insertedInto(Root, Location_OnRight, LargeGuest, DefaultSizeMode_Fair)
    /\ width(T, newId(prev)) = 300

\* the last operation was root->setSize_recursive with the root's size made
\* longer by delta along its orientation and this strategy, and it was not
\* rejected for being below the root's minimum size
resizedFromSide(delta, strategy) ==
    /\ prev # NoTree
    /\ containerLength(prev, Root) + delta
           >= call("minLength", <<prev, Root, prev[Root].m_orientation>>)
    /\ T = call("setSize_recursive",
                <<prev, Root, lengthened(size(prev, Root), prev[Root].m_orientation, delta),
                  strategy>>)
\* the change of the length of n along the root's orientation in the last operation
lengthChange(n) ==
    itemLength(T, n, prev[Root].m_orientation) - itemLength(prev, n, prev[Root].m_orientation)
\* of the children in this order, the first has taken the whole of delta
givenToFirst(children, delta) ==
    \A i \in 1..Len(children) : lengthChange(children[i]) = IF i = 1 THEN delta ELSE 0
\* the children have given up delta in this order: one has shrunk only when the
\* ones before it were left at their minimum length
takenInOrder(children, delta) ==
    /\ SeqSum(Explicit([i \in 1..Len(children) |-> lengthChange(children[i])])) = delta
    /\ \A i \in 1..Len(children) :
           /\ lengthChange(children[i]) <= 0
           /\ lengthChange(children[i]) < 0 =>
                  \A j \in 1..(i - 1) :
                      itemLength(T, children[j], prev[Root].m_orientation)
                          = call("minLength", <<T, children[j], prev[Root].m_orientation>>)
\* s in reverse order
reversed(s) == [i \in 1..Len(s) |-> s[Len(s) + 1 - i]]
\* C33 as stated: a container resized along its orientation with
\* Side1SeparatorMove gives the added length to its first visible child and takes
\* from its first visible children first, and with Side2SeparatorMove gives to
\* its last visible child and takes from its last visible children first
C33_SideNamesTheChildrenResizedFirst ==
    \A delta \in SideResizes, strategy \in SideStrategies :
        resizedFromSide(delta, strategy) =>
            \E children \in {call("visibleChildren", <<prev, Root, FALSE>>)} :
                \E ordered \in {IF strategy = Side1SeparatorMove THEN children
                                ELSE reversed(children)} :
                    IF delta > 0 THEN givenToFirst(ordered, delta)
                    ELSE takenInOrder(ordered, delta)
\* C33, with the order of a shrinking container the other way round: with
\* Side1SeparatorMove a growing container gives the added length to its first
\* visible child and a shrinking one takes from its last visible children first;
\* with Side2SeparatorMove a growing container gives to its last visible child
\* and a shrinking one takes from its first visible children first
C33_GrowingAndShrinkingResizeOppositeEnds ==
    \A delta \in SideResizes, strategy \in SideStrategies :
        resizedFromSide(delta, strategy) =>
            \E children \in {call("visibleChildren", <<prev, Root, FALSE>>)} :
                \E ordered \in {IF (strategy = Side1SeparatorMove) = (delta > 0) THEN children
                                ELSE reversed(children)} :
                    IF delta > 0 THEN givenToFirst(ordered, delta)
                    ELSE takenInOrder(ordered, delta)
\* a root of 1000x600 with three visible leaves in a row, 328, 329 and 333 wide, has
\* been made 300 narrower with Side1SeparatorMove: the last leaf is at its
\* minimum width, the middle one has given the rest and the first is as it was
C33_Witness ==
    /\ resizedFromSide(-300, Side1SeparatorMove)
    /\ prev[Root].m_children = <<1, 2, 3>>
    /\ numVisibleChildren(prev, Root) = 3
    /\ size(prev, Root) = QSize(1000, 600)
    /\ lengthChange(1) = 0
    /\ lengthChange(2) < 0
    /\ width(T, 3) = 80

\* requestSeparatorMove(separator separatorIndex of c, delta) on this tree goes
\* past its out-of-bounds check
passesBoundsCheck(tree, c, separatorIndex, delta) ==
    /\ ~separatorReadOutOfRange(tree, c, separatorIndex, delta)
    /\ call("separatorMoveProceeds", <<tree, c, separatorIndex, delta, NoItem>>)
\* C34: whenever requestSeparatorMove(separator, delta) passes its bounds check,
\* the move and the moves of the ancestors' separators that it asks for take the
\* whole of |delta|: no null neighbour separator is dereferenced and the root is
\* never left with a remainder
C34_AcceptedMoveIsAbsorbedWhole ==
    \A c \in containers(T), delta \in SeparatorMoves :
        \A separatorIndex \in 0..(Len(T[c].m_separators) - 1) :
            passesBoundsCheck(T, c, separatorIndex, delta) =>
                /\ ~call("requestSeparatorMoveFaults", <<T, c, separatorIndex, delta, NoItem>>)
                /\ call("separatorMoveShortfall", <<T, c, separatorIndex, delta>>) = 0

\* no node of the tree is marked as being inserted, and no container is marked
\* as converting an item, deserializing or blocking the percentages' update
guardsReleased(tree) ==
    \A n \in DOMAIN tree :
        /\ ~tree[n].m_sizingInfo.isBeingInserted
        /\ tree[n].isContainer =>
               /\ ~tree[n].m_convertingItemToContainer
               /\ ~tree[n].m_isDeserializing
               /\ ~tree[n].m_blockUpdatePercentages
\* C35: when a public mutation has returned, normally or early, no node has
\* isBeingInserted set and every container has m_convertingItemToContainer,
\* m_isDeserializing and m_blockUpdatePercentages false
C35_GuardsAreReleasedOnReturn ==
    /\ guardsReleased(T)
    /\ restored # NotRestored => guardsReleased(restored.tree)
\* a leaf has been inserted above a visible leaf of a horizontal row: the row
\* has converted the leaf into a container, restored the container's children
\* and resized them, and every guard is released
C35_Witness ==
    /\ \E anchor \in leaves(T) : insertedOrthogonally(anchor, Location_OnTop, SmallGuest)
    /\ guardsReleased(T)

\* the amounts by which growItem is asked to grow an entry of a working list
GrowAmounts == {10, 50}
GrowthStrategies == {BothSidesEqually, Side1Only, Side2Only}
SqueezeStrategies == {AllNeighbours, ImmediateNeighboursFirst}
\* the working list of the list of the visible children of c
workingList(tree, c) == call("sizes", <<call("sizesCache", <<tree, c>>), c>>)
\* what the entries of the list before index (Side1) or after it (Side2) can give
availableBeside(list, index, side, o) ==
    LengthOnSide_available(call("lengthOnSide",
        <<list, IF side = Side1 THEN index - 1 ELSE index + 1, side, o>>))
\* the neighbours of entry index can give what growItem will take from them; a
\* list of one entry grown on both sides has no neighbour to take from
canGrow(list, index, missing, growthStrategy, accountForNewSeparator, o) ==
    CASE growthStrategy = BothSidesEqually ->
           \/ Len(list) = 1
           \/ missing + (IF accountForNewSeparator THEN separatorThickness ELSE 0)
                  <= availableBeside(list, index, Side1, o)
                         + availableBeside(list, index, Side2, o)
      [] growthStrategy = Side1Only -> missing <= availableBeside(list, index, Side1, o)
      [] growthStrategy = Side2Only -> missing <= availableBeside(list, index, Side2, o)
\* the sum of the lengths of the entries of the list other than entry index
lengthOfOthers(list, index, o) ==
    SeqSum(Explicit([i \in 1..Len(list) |->
                        IF i = index + 1 THEN 0 ELSE si_length(list[i], o)]))
\* C36: growItem on a working list makes entry index longer by exactly missing and
\* the other entries shorter by exactly missing + (separatorThickness if
\* accountForNewSeparator) in total, for every growth strategy and every length
\* of the list, one entry included, and leaves no other entry below its minimum
\* length
C36_GrowItemTakesWhatItGives ==
    \A c \in containers(T) :
        \E list \in {workingList(T, c)} :
            \A index \in 0..(Len(list) - 1), missing \in GrowAmounts,
               growthStrategy \in GrowthStrategies, squeeze \in SqueezeStrategies,
               accountForNewSeparator \in BOOLEAN :
                canGrow(list, index, missing, growthStrategy, accountForNewSeparator,
                        T[c].m_orientation) =>
                    \E grown \in {call("growItemList",
                                       <<list, index, missing, growthStrategy, squeeze,
                                         accountForNewSeparator, T[c].m_orientation,
                                         oppositeLength(T, c)>>)} :
                        /\ si_length(grown[index + 1], T[c].m_orientation)
                               = si_length(list[index + 1], T[c].m_orientation) + missing
                        /\ lengthOfOthers(list, index, T[c].m_orientation)
                               - lengthOfOthers(grown, index, T[c].m_orientation)
                               = missing + (IF accountForNewSeparator THEN separatorThickness
                                            ELSE 0)
                        /\ \A i \in 1..Len(grown) :
                               i # index + 1 /\ si_missingLength(list[i], T[c].m_orientation) = 0
                                   => si_missingLength(grown[i], T[c].m_orientation) = 0

\* the amounts that calculateSqueezes is asked for
NeededAmounts == {0, 1, 7, 100, 305, 1000}
\* the lists of donors that shrinkNeighbours hands to calculateSqueezes for the
\* working list of c: the entries before an entry and the entries after it
donorLists(tree, c) ==
    LET list == workingList(tree, c)
    IN {SubSeq(list, 1, index) : index \in 0..Len(list)}
           \cup {SubSeq(list, index + 1, Len(list)) : index \in 0..Len(list)}
\* what each donor can give along o
availabilitiesOf(donors, o) ==
    Explicit([i \in 1..Len(donors) |-> si_availableLength(donors[i], o)])
\* C37: calculateSqueezes with AllNeighbours ends for every list of donors and
\* every needed >= 0: every pass over donors of which one can still give takes at
\* least 1; when the donors can give needed in total, every squeeze is between 0
\* and what its donor can give and the squeezes add up to needed; when they
\* cannot, it ends in the assertion for the lack of donors and returns nothing
C37_SqueezingAllNeighboursEnds ==
    \A c \in containers(T) :
        \A donors \in donorLists(T, c), needed \in NeededAmounts :
            \E available \in {availabilitiesOf(donors, T[c].m_orientation)} :
                \E squeezes \in {call("calculateSqueezes",
                                      <<donors, needed, AllNeighbours, FALSE,
                                        T[c].m_orientation>>)} :
                    /\ (needed > 0 /\ \E i \in 1..Len(available) : available[i] > 0) =>
                           call("squeezePass",
                                <<1, available, Explicit([i \in 1..Len(donors) |-> 0]), needed,
                                  IF needed \div Cardinality({i \in 1..Len(available) :
                                                                  available[i] > 0}) = 0
                                  THEN needed
                                  ELSE needed \div Cardinality({i \in 1..Len(available) :
                                                                    available[i] > 0})>>).missing
                               < needed
                    /\ IF SeqSum(available) >= needed
                       THEN /\ Len(squeezes) = Len(donors)
                            /\ \A i \in 1..Len(squeezes) :
                                   squeezes[i] >= 0 /\ squeezes[i] <= available[i]
                            /\ SeqSum(squeezes) = needed
                       ELSE squeezes = << >>
\* a leaf of minimum width 300 has been inserted with Fair on the right of a root
\* of 500x700 that held two visible leaves, 248 and 247 wide: both have given,
\* 153 and 152, the 305 that the leaf and its separator need
C37_Witness ==
    /\ prev # NoTree
    /\ prev[Root].m_children = <<1, 2>>
    /\ size(prev, Root) = QSize(500, 700)
    /\ width(prev, 1) = 248
    /\ width(prev, 2) = 247
    /\ insertedInto(Root, Location_OnRight, LargeGuest, DefaultSizeMode_Fair)
    /\ width(T, 1) = 95
    /\ width(T, 2) = 95
    /\ width(T, 3) = 300

\* the amounts that shrinkNeighbours is asked to take on a side
SqueezeAmounts == {0, 10, 100, 300}
\* what entry i of the list has given, along o
squeezeOf(list, shrunk, i, o) == si_length(list[i], o) - si_length(shrunk[i], o)
\* the entries from..to of the shrunk list are at their minimum length along o
atMinimum(shrunk, from, to, o) ==
    \A j \in from..to : si_length(shrunk[j], o) = si_minLength(shrunk[j], o)
\* C38: with ImmediateNeighboursFirst, shrinkNeighbours takes from an entry only
\* when every entry between it and the growing entry is left at its minimum
\* length, before the growing entry as well as after it; no entry is made longer,
\* and on a side that can give the amount asked for the squeezes add up to it
C38_ImmediateNeighboursGiveFirst ==
    \A c \in containers(T) :
        \E list \in {workingList(T, c)}, o \in {T[c].m_orientation} :
            \A index \in 0..(Len(list) - 1), side1Amount \in SqueezeAmounts,
               side2Amount \in SqueezeAmounts :
                side1Amount + side2Amount > 0 =>
                    \E shrunk \in {call("shrinkNeighbours",
                                        <<list, index, side1Amount, side2Amount,
                                          ImmediateNeighboursFirst, o>>)} :
                        /\ Len(shrunk) = Len(list)
                        /\ shrunk[index + 1] = list[index + 1]
                        /\ \A i \in 1..Len(list) : squeezeOf(list, shrunk, i, o) >= 0
                        /\ \A i \in 1..index :
                               squeezeOf(list, shrunk, i, o) > 0
                                   => atMinimum(shrunk, i + 1, index, o)
                        /\ \A i \in (index + 2)..Len(list) :
                               squeezeOf(list, shrunk, i, o) > 0
                                   => atMinimum(shrunk, index + 2, i - 1, o)
                        /\ side1Amount <= availableBeside(list, index, Side1, o) =>
                               SeqSum(Explicit([i \in 1..index |->
                                                   squeezeOf(list, shrunk, i, o)]))
                                   = side1Amount
                        /\ side2Amount <= availableBeside(list, index, Side2, o) =>
                               SeqSum(Explicit([i \in 1..(Len(list) - index - 1) |->
                                                   squeezeOf(list, shrunk, index + 1 + i, o)]))
                                   = side2Amount
\* the separator between the second and the third of three visible leaves of a
\* root of 1000x600 has been moved by -450: the second leaf, next to the growing
\* one, is at its minimum width of 80 and the first has given the rest
C38_Witness ==
    /\ prev # NoTree
    /\ prev[Root].m_children = <<1, 2, 3>>
    /\ numVisibleChildren(prev, Root) = 3
    /\ size(prev, Root) = QSize(1000, 600)
    /\ T = call("requestSeparatorMove", <<prev, Root, 1, -450, NoItem>>)
    /\ width(T, 3) = width(prev, 3) + 450
    /\ width(T, 2) = 80
    /\ width(T, 1) = width(prev, 1) - (450 - (width(prev, 2) - 80))
    /\ width(T, 1) > 80

\* node n is the node a or lies below it
RECURSIVE isWithin(_, _, _)
isWithin(tree, n, a) ==
    \/ n = a
    \/ /\ tree[n].m_parent # NoItem
       /\ isWithin(tree, tree[n].m_parent, a)
\* the last operation was requestSeparatorMove(separator separatorIndex of c,
\* delta), and the two sides of the separator have taken the whole of delta
movedWithinContainer(c, separatorIndex, delta) ==
    /\ ~faulted
    /\ passesBoundsCheck(prev, c, separatorIndex, delta)
    /\ call("separatorMoveLocally", <<prev, c, separatorIndex, delta, NoItem>>)[2] = Abs(delta)
    /\ T = call("requestSeparatorMove", <<prev, c, separatorIndex, delta, NoItem>>)
\* the container d below c lies before the separator separatorIndex of c
liesOnSide1(c, separatorIndex, d) ==
    \E children \in {call("visibleChildren", <<prev, c, FALSE>>)} :
        \E k \in 1..Len(children) :
            k <= separatorIndex + 1 /\ isWithin(prev, d, children[k])
\* C39: when a separator move changes the length of a container next to the
\* separator, or of a container within it, along that container's own
\* orientation, the child nearest to the separator takes the change first: a
\* growing container gives the whole growth to that child, a shrinking one takes
\* from its children in the order of their distance from the separator, each
\* left at its minimum length before the next gives
C39_NearestChildAbsorbsSeparatorMove ==
    prev # NoTree =>
        \A c \in containers(prev), delta \in SeparatorMoves :
            \A separatorIndex \in 0..(Len(prev[c].m_separators) - 1) :
                movedWithinContainer(c, separatorIndex, delta) =>
                    \A d \in containers(prev) \ {c} :
                        (/\ isWithin(prev, d, c)
                         /\ prev[c].m_orientation = prev[Root].m_orientation
                         /\ prev[d].m_orientation = prev[Root].m_orientation
                         /\ lengthChange(d) # 0) =>
                            \E children \in {call("visibleChildren", <<prev, d, FALSE>>)} :
                                \E ordered \in {IF liesOnSide1(c, separatorIndex, d)
                                                THEN reversed(children) ELSE children} :
                                    IF lengthChange(d) > 0
                                    THEN givenToFirst(ordered, lengthChange(d))
                                    ELSE takenInOrder(ordered, lengthChange(d))

\* in a root of 1000x600 that holds leaf 1, a vertical container and leaf 7, the
\* separator before leaf 7 has been moved by -100: the horizontal container 6
\* within the vertical one is 100 narrower; its last leaf, the one next to the
\* separator, is at its minimum width of 80 and its first leaf has given the rest
C39_Witness ==
    /\ prev # NoTree
    /\ prev[Root].m_children = <<1, 4, 7>>
    /\ size(prev, Root) = QSize(1000, 600)
    /\ prev[6].m_children = <<5, 3>>
    /\ prev[6].m_orientation = Horizontal
    /\ movedWithinContainer(Root, 1, -100)
    /\ width(prev, 6) = 330
    /\ width(T, 6) = 230
    /\ width(prev, 3) = 163
    /\ width(T, 3) = 80
    /\ width(prev, 5) = 162
    /\ width(T, 5) = 145

\* the last operation was root->suggestedDropRect(item, nullptr, loc) with one of
\* the four locations, on a root that would have to grow to take the item
queriedRootFallback ==
    /\ queried
    /\ dropRect.c = Root
    /\ dropRect.relativeTo = NoItem
    /\ dropRect.loc \in Locations
    /\ windowNeedsGrowing(withDraggedItem(prev, dropRect.profile), newId(prev), dropRect.loc)
\* max(min(available, length / 3), item.minLength) of the root, measured along o
carvedLength(o) ==
    Max(Min(length(call("availableSize", <<prev, Root>>), o) - separatorThickness,
            length(size(prev, Root), o) \div 3),
        length(call("minSize", <<withDraggedItem(prev, dropRect.profile), newId(prev)>>), o))
\* C40: in the fallback of suggestedDropRect for the root without relativeTo, the
\* rectangle touches the edge of the root that loc names, spans the root across,
\* lies within the root's rectangle, and is max(min(available, length / 3),
\* item.minLength) long along the axis of loc, all three measured along that axis
C40_RootFallbackCarvesFromTheEdge ==
    queriedRootFallback =>
        \E whole \in {rect(prev, Root)}, o \in {requiredOrientation(dropRect.loc)} :
            /\ CASE dropRect.loc = Location_OnLeft -> dropRect.rect.x = whole.x
                 [] dropRect.loc = Location_OnTop -> dropRect.rect.y = whole.y
                 [] dropRect.loc = Location_OnRight ->
                        dropRect.rect.x + dropRect.rect.w = whole.x + whole.w
                 [] dropRect.loc = Location_OnBottom ->
                        dropRect.rect.y + dropRect.rect.h = whole.y + whole.h
            /\ IF o = Horizontal
               THEN dropRect.rect.y = whole.y /\ dropRect.rect.h = whole.h
               ELSE dropRect.rect.x = whole.x /\ dropRect.rect.w = whole.w
            /\ rectContains(whole, dropRect.rect)
            /\ length(rectSize(dropRect.rect), o) = carvedLength(o)


====
